---- MODULE Spec2Model ----
(***************************************************************************)
(* Model of the memory inspection engine of vondutch_patcher:              *)
(* process_inspector.py (mock memory access, value search, snapshots, the  *)
(* dynamic scan controller, reference tracing) and the addon package       *)
(* (auto_patch.py, patch_runner.py, utils.py: the write and enforcement    *)
(* path).                                                                  *)
(*                                                                         *)
(* Memory is the mock backend's: a list of regions and one byte buffer per *)
(* region base.  Bytes are naturals in 0..255.  Python numbers are records *)
(* [kind, h]: kind is "int" or "float" and h is twice the number, so that  *)
(* halves (3.5) are exact; struct packing is little-endian two's           *)
(* complement, computed byte by byte.                                      *)
(***************************************************************************)
EXTENDS Integers, Sequences, FiniteSets, TLC

VARIABLES
    mock_regions,   \* ScanContext.mock_regions: sequence of Region records
    mock_data,      \* ScanContext.mock_data: region base -> byte buffer
    mock,           \* ScanContext.mock; FALSE: the buffers are a live target's memory
    mock_dynamic,   \* ScanContext.mock_dynamic_addr, _type, _value, _step
    op,             \* the last operation applied: its inputs and its result
    dyn,            \* locals of run_dynamic_scan_loop and its position
    hist,           \* what the last step of the dynamic loop did (history)
    confirmation_granted,   \* auto_patch._confirmation_granted
    patch_log,      \* the lines of the patch log file
    watch,          \* run_watch_patch_loop: its arguments and its position
    calls,          \* entry points of the addon called so far in the session
    session         \* main: its position, the process handle and its result

memVars == <<mock_regions, mock_data, mock, mock_dynamic>>
dynVars == <<dyn, hist, session>>
patchVars == <<confirmation_granted, patch_log, watch, calls>>
vars == <<memVars, op, dynVars, patchVars>>

(***************************************************************************)
(* Bounds of the model.                                                    *)
(***************************************************************************)
\* chunk length of search_values (0x4000 in the source), scaled so that a
\* region longer than one chunk stays small
ScanChunk == 8
\* pointer words in one chunk of find_pointer_references (0x800 in the source)
RefChunkWords == 2
\* largest size of the first region in the search specification
MaxRegionSize == 11

(***************************************************************************)
(* Small helpers.                                                          *)
(***************************************************************************)
Min(a, b) == IF a <= b THEN a ELSE b
Max(a, b) == IF a >= b THEN a ELSE b
Abs(a) == IF a >= 0 THEN a ELSE -a
Range(s) == {s[i] : i \in 1..Len(s)}

\* All sequences of length n over the set S.
RECURSIVE SeqsOf(_, _)
SeqsOf(S, n) ==
    IF n = 0 THEN {<<>>}
    ELSE {Append(s, x) : s \in SeqsOf(S, n - 1), x \in S}

\* Python's None where the other values are strings
None == "None"
\* an optional number or dict: Nothing for None, Some(x) otherwise
Nothing == <<>>
Some(x) == <<x>>

(***************************************************************************)
(* Python numbers.                                                         *)
(***************************************************************************)
PyInt(n) == [kind |-> "int", h |-> 2 * n]
PyFloat(h) == [kind |-> "float", h |-> h]

(***************************************************************************)
(* Regions and the mock read.                                              *)
(***************************************************************************)
Region(b, s) == [base_address |-> b, size |-> s]

\* Python's block[lo : hi] for 0 <= lo
Slice(block, lo, hi) == SubSeq(block, lo + 1, Min(hi, Len(block)))

\* The first region of the context that contains the address, 0 if none.
RECURSIVE RegionIndexOf(_, _, _)
RegionIndexOf(regions, address, i) ==
    IF i > Len(regions) THEN 0
    ELSE IF /\ regions[i].base_address <= address
            /\ address < regions[i].base_address + regions[i].size
         THEN i
         ELSE RegionIndexOf(regions, address, i + 1)

\* read_process_memory in mock mode: the bytes, or ok = FALSE for ValueError.
read_process_memory(regions, data, address, size) ==
    LET i == RegionIndexOf(regions, address, 1) IN
    IF i = 0 THEN [ok |-> FALSE, data |-> <<>>]
    ELSE LET offset == address - regions[i].base_address
             block == data[regions[i].base_address]
         IN [ok |-> TRUE, data |-> Slice(block, offset, offset + size)]

(***************************************************************************)
(* Value codec of the scanner (struct.pack / struct.unpack).               *)
(***************************************************************************)
\* byte widths of VALUE_FORMATS; the integer formats are modelled byte by byte
VALUE_FORMATS ==
    [int32 |-> 4, uint32 |-> 4, int64 |-> 8, uint64 |-> 8]

IsSigned(value_type) == value_type \in {"int32", "int64"}

\* little-endian two's complement bytes of the integer n, width bytes
RECURSIVE LEBytes(_, _)
LEBytes(n, width) ==
    IF width = 0 THEN <<>>
    ELSE <<n % 256>> \o LEBytes(n \div 256, width - 1)

\* struct.pack(fmt, value): struct.error for a float given to an integer
\* format and for a negative number given to an unsigned format
struct_pack(value_type, value) ==
    IF value.kind # "int" THEN [ok |-> FALSE, bytes |-> <<>>]
    ELSE IF ~IsSigned(value_type) /\ value.h < 0 THEN [ok |-> FALSE, bytes |-> <<>>]
    ELSE [ok |-> TRUE, bytes |-> LEBytes(value.h \div 2, VALUE_FORMATS[value_type])]

\* pack_value of process_inspector.py: no rounding before struct.pack
pack_value(value, fmt_key) ==
    IF fmt_key \notin DOMAIN VALUE_FORMATS THEN [ok |-> FALSE, bytes |-> <<>>]
    ELSE struct_pack(fmt_key, value)

(***************************************************************************)
(* Value search.                                                           *)
(***************************************************************************)
\* bytes.find(pattern, start): the lowest index >= start, or -1
RECURSIVE BytesFind(_, _, _)
BytesFind(data, pattern, start) ==
    IF start + Len(pattern) > Len(data) THEN -1
    ELSE IF SubSeq(data, start + 1, start + Len(pattern)) = pattern THEN start
    ELSE BytesFind(data, pattern, start + 1)

\* the inner while loop of search_values: every hit of one chunk
RECURSIVE ChunkHits(_, _, _, _)
ChunkHits(data, pattern, address, idx) ==
    IF idx = -1 THEN <<>>
    ELSE <<address + idx>> \o ChunkHits(data, pattern, address, BytesFind(data, pattern, idx + 1))

\* a failed read ends the scan of the region
RECURSIVE SearchRegion_Break(_, _, _, _, _)
SearchRegion_Break(regions, data, region, pattern, offset) ==
    IF offset >= region.size THEN <<>>
    ELSE LET to_read == Min(ScanChunk, region.size - offset)
             address == region.base_address + offset
             rd == read_process_memory(regions, data, address, to_read)
         IN IF ~rd.ok THEN <<>>
            ELSE ChunkHits(rd.data, pattern, address, BytesFind(rd.data, pattern, 0))
                 \o SearchRegion_Break(regions, data, region, pattern, offset + to_read)

\* the chunk loop of search_values over one region
RECURSIVE SearchRegion(_, _, _, _, _)
SearchRegion(regions, data, region, pattern, offset) ==
    IF offset >= region.size THEN <<>>
    ELSE LET to_read == Min(ScanChunk, region.size - offset)
             address == region.base_address + offset
             rd == read_process_memory(regions, data, address, to_read)
             hits == IF rd.ok
                     THEN ChunkHits(rd.data, pattern, address, BytesFind(rd.data, pattern, 0))
                     ELSE <<>>
         IN hits \o SearchRegion(regions, data, region, pattern, offset + to_read)

RECURSIVE SearchRegions(_, _, _, _, _)
SearchRegions(ctx_regions, data, regions, pattern, i) ==
    IF i > Len(regions) THEN <<>>
    ELSE SearchRegion(ctx_regions, data, regions[i], pattern, 0)
         \o SearchRegions(ctx_regions, data, regions, pattern, i + 1)

\* search_values: the list found, or ok = FALSE when packing raises
search_values(ctx_regions, data, regions, target_value, value_type) ==
    LET p == pack_value(target_value, value_type) IN
    IF ~p.ok THEN [ok |-> FALSE, found |-> <<>>]
    ELSE [ok |-> TRUE, found |-> SearchRegions(ctx_regions, data, regions, p.bytes, 1)]

(***************************************************************************)
(* Inputs of the scan specification: any region size and contents.         *)
(***************************************************************************)
SearchBytes == {0, 1}
SearchTargets == {PyInt(0), PyInt(1), PyInt(257), PyFloat(2)}
\* base1 and base2 of build_mock_context: 0x10000000 and 0x20000000
Base1 == 268435456
Base2 == 536870912

Idle == [name |-> "none"]

\* no mock-dynamic value: mock_dynamic_addr is None
NoDynamic == [addr |-> Nothing, type |-> None, value |-> 0, step |-> 0]

DynIdle == [pc |-> "idle"]
HistIdle == [exit |-> "none", filtered |-> -1, carried |-> 0, decreasing |-> TRUE]

WatchIdle == [pc |-> "idle"]
\* main not started
SessionIdle == [pc |-> "idle"]

\* the variables a specification does not use
DynUnused == dyn = DynIdle /\ hist = HistIdle /\ session = SessionIdle
PatchUnused ==
    /\ confirmation_granted = FALSE
    /\ patch_log = <<>>
    /\ watch = WatchIdle
    /\ calls = 0

InitScan ==
    /\ \E s1 \in 1..MaxRegionSize, two \in BOOLEAN :
         /\ mock_regions = IF two THEN <<Region(Base1, s1), Region(Base2, 4)>>
                           ELSE <<Region(Base1, s1)>>
         /\ \E c1 \in SeqsOf(SearchBytes, s1), c2 \in {<<0, 0, 0, 0>>, <<1, 0, 0, 0>>} :
              mock_data = IF two THEN (Base1 :> c1) @@ (Base2 :> c2) ELSE (Base1 :> c1)
    /\ mock = TRUE
    /\ mock_dynamic = NoDynamic
    /\ op = Idle
    /\ DynUnused
    /\ PatchUnused

Search ==
    /\ op.name = "none"
    /\ \E target \in SearchTargets, value_type \in {"int32"} :
         op' = [name |-> "search_values", target |-> target, value_type |-> value_type,
                result |-> search_values(mock_regions, mock_data, mock_regions,
                                         target, value_type)]
    /\ UNCHANGED <<memVars, dynVars, patchVars>>


\* rescan that trusts every address it can read
rescan_Trusting(ctx_regions, data, addresses, expected_value, value_type) ==
    LET packed == struct_pack(value_type, expected_value) IN
    IF ~packed.ok THEN [ok |-> FALSE, results |-> [a \in {} |-> FALSE]]
    ELSE [ok |-> TRUE,
          results |-> [a \in Range(addresses) |->
                         read_process_memory(ctx_regions, data, a,
                                             VALUE_FORMATS[value_type]).ok]]

\* rescan: the dict address -> still valid, or ok = FALSE when struct.pack
\* raises; a failed read gives False
rescan(ctx_regions, data, addresses, expected_value, value_type) ==
    LET packed == struct_pack(value_type, expected_value) IN
    IF ~packed.ok THEN [ok |-> FALSE, results |-> [a \in {} |-> FALSE]]
    ELSE [ok |-> TRUE,
          results |-> [a \in Range(addresses) |->
                         LET rd == read_process_memory(ctx_regions, data, a,
                                                       VALUE_FORMATS[value_type])
                         IN rd.ok /\ rd.data = packed.bytes]]

\* the target software changes the byte at one of the addresses found
TargetChange ==
    /\ op.name = "search_values"
    /\ op.result.ok
    /\ \E x \in Range(op.result.found), b \in 0..2 :
         LET i == RegionIndexOf(mock_regions, x, 1)
             start == mock_regions[i].base_address
         IN /\ b # mock_data[start][x - start + 1]
            /\ mock_data' = [mock_data EXCEPT ![start] =
                              [k \in 1..Len(@) |-> IF k = x - start + 1 THEN b ELSE @[k]]]
            /\ op' = [name |-> "changed", target |-> op.target,
                      value_type |-> op.value_type, found |-> op.result.found,
                      x |-> Some(x)]
    /\ UNCHANGED <<mock_regions, mock, mock_dynamic, dynVars, patchVars>>

\* an address that lies in no region
Unmapped == Base2 + MaxRegionSize + 1

\* rescan of the addresses found, with the same target; the list may also
\* hold an address that cannot be read
Rescan ==
    /\ \/ op.name = "search_values" /\ op.result.ok
       \/ op.name = "changed"
    /\ \E extra \in {<<>>, <<Unmapped>>} :
         LET found == IF op.name = "changed" THEN op.found ELSE op.result.found
             addresses == found \o extra
         IN op' = [name |-> "rescan", target |-> op.target, value_type |-> op.value_type,
                   found |-> found, addresses |-> addresses,
                   x |-> IF op.name = "changed" THEN op.x ELSE Nothing,
                   result |-> rescan(mock_regions, mock_data, addresses, op.target,
                                     op.value_type)]
    /\ UNCHANGED <<memVars, dynVars, patchVars>>

\* every address where the pattern lies inside one region of the list
Occurrences(regions, data, pattern) ==
    {regions[p[1]].base_address + p[2] :
        p \in {q \in (1..Len(regions)) \X (0..(MaxRegionSize + 1)) :
                 /\ q[2] + Len(pattern) <= regions[q[1]].size
                 /\ SubSeq(data[regions[q[1]].base_address],
                           q[2] + 1, q[2] + Len(pattern)) = pattern}}

\* C1: search_values returns exactly the addresses at which the packed
\* target lies inside a region, chunk-spanning occurrences included.
C1_SearchExact ==
    (op.name = "search_values" /\ op.result.ok) =>
        Range(op.result.found) =
            Occurrences(mock_regions, mock_data, pack_value(op.target, op.value_type).bytes)

(***************************************************************************)
(* Snapshot engine.                                                        *)
(***************************************************************************)
\* struct.unpack of a signed little-endian integer
RECURSIVE SignedLE(_)
SignedLE(raw) ==
    IF Len(raw) = 1 THEN (IF raw[1] >= 128 THEN raw[1] - 256 ELSE raw[1])
    ELSE raw[1] + 256 * SignedLE(Tail(raw))

RECURSIVE UnsignedLE(_)
UnsignedLE(raw) ==
    IF raw = <<>> THEN 0 ELSE raw[1] + 256 * UnsignedLE(Tail(raw))

struct_unpack(value_type, raw) ==
    IF IsSigned(value_type) THEN SignedLE(raw) ELSE UnsignedLE(raw)

EmptyDict == [a \in {} |-> 0]

\* dict update: the entries of new replace those of old
Update(old, new) == new @@ old

\* the for loop of take_snapshot over one chunk: range(0, usable, size)
SnapshotChunk(value_type, address, data) ==
    LET size == VALUE_FORMATS[value_type]
        usable == Len(data) - (Len(data) % size)
        idxs == {i \in 0..(usable - 1) : i % size = 0}
    IN [a \in {address + i : i \in idxs} |->
            struct_unpack(value_type,
                          SubSeq(data, a - address + 1, a - address + size))]

RECURSIVE SnapshotRegion(_, _, _, _, _, _)
SnapshotRegion(ctx_regions, data, region, value_type, chunk_size, offset) ==
    IF offset >= region.size THEN EmptyDict
    ELSE LET to_read == Min(chunk_size, region.size - offset)
             address == region.base_address + offset
             rd == read_process_memory(ctx_regions, data, address, to_read)
             here == IF rd.ok THEN SnapshotChunk(value_type, address, rd.data)
                     ELSE EmptyDict
         IN Update(here, SnapshotRegion(ctx_regions, data, region, value_type,
                                        chunk_size, offset + to_read))

RECURSIVE SnapshotRegions(_, _, _, _, _, _)
SnapshotRegions(ctx_regions, data, regions, value_type, chunk_size, i) ==
    IF i > Len(regions) THEN EmptyDict
    ELSE Update(SnapshotRegion(ctx_regions, data, regions[i], value_type, chunk_size, 0),
                SnapshotRegions(ctx_regions, data, regions, value_type, chunk_size, i + 1))

\* take_snapshot: address -> decoded value
take_snapshot(ctx_regions, data, regions, value_type, chunk_size) ==
    SnapshotRegions(ctx_regions, data, regions, value_type, chunk_size, 1)

\* chunk_size = max(args.chunk_size, VALUE_FORMATS[value_type][1])
DynamicChunkSize(args_chunk_size, value_type) ==
    Max(args_chunk_size, VALUE_FORMATS[value_type])

(***************************************************************************)
(* Specification of the scans of a fixed memory: search and snapshot.      *)
(***************************************************************************)
\* largest --chunk-size given on the command line
MaxChunkArg == 9

AllZero(data) == \A b \in DOMAIN data : \A i \in 1..Len(data[b]) : data[b][i] = 0

\* 64-bit values are decoded on zero-filled memory only, where they stay
\* within the integers of the checker
SnapshotTypes(data) ==
    IF AllZero(data) THEN {"int32", "uint32", "int64"} ELSE {"int32", "uint32"}

Snapshot ==
    /\ op.name = "none"
    /\ \E value_type \in SnapshotTypes(mock_data), args_chunk_size \in 1..MaxChunkArg :
         LET chunk_size == DynamicChunkSize(args_chunk_size, value_type) IN
         op' = [name |-> "take_snapshot", value_type |-> value_type,
                chunk_size |-> chunk_size,
                result |-> take_snapshot(mock_regions, mock_data, mock_regions,
                                         value_type, chunk_size)]
    /\ UNCHANGED <<memVars, dynVars, patchVars>>

NextScan == Search \/ Snapshot \/ TargetChange \/ Rescan

SpecScan == InitScan /\ [][NextScan]_vars

\* C2: every key of a snapshot is aligned to the value size within an input
\* region that contains it, for every chunk size the controller can pass.
C2_SnapshotAligned ==
    op.name = "take_snapshot" =>
        \A addr \in DOMAIN op.result :
            \E i \in 1..Len(mock_regions) :
                /\ mock_regions[i].base_address <= addr
                /\ addr < mock_regions[i].base_address + mock_regions[i].size
                /\ (addr - mock_regions[i].base_address) % VALUE_FORMATS[op.value_type] = 0

(***************************************************************************)
(* Reference tracing.                                                      *)
(***************************************************************************)
\* ScanContext.pointer_size of the mock context
pointer_size == 8

\* chunk_size of find_pointer_references: a whole number of pointer words
RefChunk == RefChunkWords * pointer_size

\* for idx in range(0, len(data) - pointer_size + 1, pointer_size)
RECURSIVE RefsChunkFrom(_, _, _, _)
RefsChunkFrom(data, target_bytes, address, idx) ==
    IF idx >= Len(data) - pointer_size + 1 THEN <<>>
    ELSE (IF SubSeq(data, idx + 1, idx + pointer_size) = target_bytes
          THEN <<address + idx>> ELSE <<>>)
         \o RefsChunkFrom(data, target_bytes, address, idx + pointer_size)

\* off-by-one-stride variant: the address is taken after the index advanced
RefsChunk_Late(data, target_bytes, address) ==
    RefsChunkFrom(data, target_bytes, address + pointer_size, 0)

RefsChunk(data, target_bytes, address) ==
    RefsChunkFrom(data, target_bytes, address, 0)

RECURSIVE RefsRegion(_, _, _, _, _)
RefsRegion(ctx_regions, data, region, target_bytes, offset) ==
    IF offset + pointer_size > region.size THEN <<>>
    ELSE LET to_read == Min(RefChunk, region.size - offset)
             address == region.base_address + offset
             rd == read_process_memory(ctx_regions, data, address, to_read)
         IN (IF rd.ok THEN RefsChunk(rd.data, target_bytes, address) ELSE <<>>)
            \o RefsRegion(ctx_regions, data, region, target_bytes, offset + to_read)

RECURSIVE RefsRegions(_, _, _, _, _)
RefsRegions(ctx_regions, data, regions, target_bytes, i) ==
    IF i > Len(regions) THEN <<>>
    ELSE RefsRegion(ctx_regions, data, regions[i], target_bytes, 0)
         \o RefsRegions(ctx_regions, data, regions, target_bytes, i + 1)

\* find_pointer_references: the list refs
find_pointer_references(ctx_regions, data, regions, target) ==
    RefsRegions(ctx_regions, data, regions, LEBytes(target, pointer_size), 1)

\* A frontier is a dict target -> list of paths, kept in insertion order.
FrontierHas(frontier, ref) == \E i \in 1..Len(frontier) : frontier[i].target = ref

\* next_frontier.setdefault(ref, []).append(new_path)
FrontierAdd(frontier, ref, new_path) ==
    IF FrontierHas(frontier, ref)
    THEN [i \in 1..Len(frontier) |->
            IF frontier[i].target = ref
            THEN [target |-> ref, paths |-> Append(frontier[i].paths, new_path)]
            ELSE frontier[i]]
    ELSE Append(frontier, [target |-> ref, paths |-> <<new_path>>])

\* frontier = {addr: [[addr]] for addr in seeds}
RECURSIVE FrontierInit(_, _)
FrontierInit(seeds, i) ==
    IF i = 0 THEN <<>>
    ELSE LET before == FrontierInit(seeds, i - 1) IN
         IF FrontierHas(before, seeds[i]) THEN before
         ELSE Append(before, [target |-> seeds[i], paths |-> <<<<seeds[i]>>>>])

\* for path in existing_paths
RECURSIVE ExtendPaths(_, _, _, _)
ExtendPaths(st, ref, existing_paths, k) ==
    IF k > Len(existing_paths) THEN st
    ELSE LET new_path == <<ref>> \o existing_paths[k] IN
         ExtendPaths([chains |-> Append(st.chains, new_path),
                      next_frontier |-> FrontierAdd(st.next_frontier, ref, new_path)],
                     ref, existing_paths, k + 1)

\* for ref in refs
RECURSIVE ExtendRefs(_, _, _, _)
ExtendRefs(st, refs, existing_paths, j) ==
    IF j > Len(refs) THEN st
    ELSE ExtendRefs(ExtendPaths(st, refs[j], existing_paths, 1), refs, existing_paths, j + 1)

\* for target, existing_paths in frontier.items()
RECURSIVE TraceTargets(_, _, _, _, _, _)
TraceTargets(st, ctx_regions, data, regions, frontier, i) ==
    IF i > Len(frontier) THEN st
    ELSE LET refs == find_pointer_references(ctx_regions, data, regions, frontier[i].target) IN
         TraceTargets(ExtendRefs(st, refs, frontier[i].paths, 1),
                      ctx_regions, data, regions, frontier, i + 1)

\* while frontier and depth < max_depth
RECURSIVE TraceDepth(_, _, _, _, _, _, _)
TraceDepth(chains, ctx_regions, data, regions, frontier, depth, max_depth) ==
    IF frontier = <<>> \/ depth >= max_depth THEN [chains |-> chains, rounds |-> depth]
    ELSE LET st == TraceTargets([chains |-> chains, next_frontier |-> <<>>],
                                ctx_regions, data, regions, frontier, 1)
         IN TraceDepth(st.chains, ctx_regions, data, regions, st.next_frontier,
                       depth + 1, max_depth)

\* the seed paths are emitted too
trace_references_Seeded(ctx_regions, data, regions, seeds, max_depth) ==
    TraceDepth([i \in 1..Len(seeds) |-> <<seeds[i]>>], ctx_regions, data, regions,
               FrontierInit(seeds, Len(seeds)), 0, max_depth)

\* depth set one short
trace_references_Shallow(ctx_regions, data, regions, seeds, max_depth) ==
    TraceDepth(<<>>, ctx_regions, data, regions, FrontierInit(seeds, Len(seeds)), 0,
               max_depth - 1)

\* trace_references: the list of chains (and the rounds run)
trace_references(ctx_regions, data, regions, seeds, max_depth) ==
    TraceDepth(<<>>, ctx_regions, data, regions, FrontierInit(seeds, Len(seeds)), 0, max_depth)

(***************************************************************************)
(* Specification of reference tracing: regions of pointer words.           *)
(***************************************************************************)
\* largest --reference-depth
MaxDepth == 3
\* bytes of the first region beyond its three pointer words
MaxTail == 4

\* the values a pointer word may hold: nothing, the seeds, the word slots
TraceWords ==
    {0, Base1 + 4, Base1, Base1 + 8, Base1 + 16, Base2}

TraceSeeds == {<<>>, <<Base1 + 4>>, <<Base1 + 4, Base2>>, <<Base1 + 8, Base1 + 8>>}

RECURSIVE Zeros(_)
Zeros(n) == IF n = 0 THEN <<>> ELSE <<0>> \o Zeros(n - 1)

InitTrace ==
    /\ \E tail \in {0, MaxTail}, w1 \in TraceWords, w2 \in TraceWords,
          w3 \in TraceWords, w4 \in TraceWords :
         /\ mock_regions = <<Region(Base1, 3 * pointer_size + tail),
                             Region(Base2, pointer_size)>>
         /\ mock_data =
              (Base1 :> (LEBytes(w1, pointer_size) \o LEBytes(w2, pointer_size)
                         \o LEBytes(w3, pointer_size) \o Zeros(tail)))
              @@ (Base2 :> LEBytes(w4, pointer_size))
    /\ mock = TRUE
    /\ mock_dynamic = NoDynamic
    /\ op = Idle
    /\ DynUnused
    /\ PatchUnused

Trace ==
    /\ op.name = "none"
    /\ \E seeds \in TraceSeeds, max_depth \in 0..MaxDepth :
         op' = [name |-> "trace_references", seeds |-> seeds, max_depth |-> max_depth,
                result |-> trace_references(mock_regions, mock_data, mock_regions,
                                            seeds, max_depth)]
    /\ UNCHANGED <<memVars, dynVars, patchVars>>

NextTrace == Trace

SpecTrace == InitTrace /\ [][NextTrace]_vars

InRegions(regions, a) ==
    \E i \in 1..Len(regions) :
        regions[i].base_address <= a /\ a < regions[i].base_address + regions[i].size

\* C4: in every chain the last address is a seed, and every other address
\* lies in a scanned region and holds, as an unsigned little-endian word of
\* pointer_size bytes, the address that follows it in the chain.
C4_ChainSound ==
    op.name = "trace_references" =>
        \A c \in Range(op.result.chains) :
            /\ Len(c) >= 1
            /\ c[Len(c)] \in Range(op.seeds)
            /\ \A i \in 1..(Len(c) - 1) :
                 LET rd == read_process_memory(mock_regions, mock_data, c[i], pointer_size) IN
                 /\ InRegions(mock_regions, c[i])
                 /\ rd.ok
                 /\ Len(rd.data) = pointer_size
                 /\ UnsignedLE(rd.data) = c[i + 1]

\* a chain of three addresses was returned
C4_Witness ==
    /\ op.name = "trace_references"
    /\ \E c \in Range(op.result.chains) : Len(c) = 3 /\ c[1] # c[2]

(***************************************************************************)
(* Mock-dynamic value.                                                     *)
(***************************************************************************)
\* Python's round(): to the nearest integer, halves to the even one
PyRound(h) ==
    IF h % 2 = 0 THEN h \div 2
    ELSE LET k == (h - 1) \div 2 IN IF k % 2 = 0 THEN k ELSE k + 1

\* normalize_for_type for the integer types: int(round(value))
normalize_for_type(value, value_type) == PyInt(PyRound(value.h))

\* block[offset : offset + size] = packed
Splice(block, offset, packed) ==
    [i \in 1..Len(block) |->
        IF i > offset /\ i <= offset + Len(packed) THEN packed[i - offset] ELSE block[i]]

\* the first region with start <= address <= end - size, 0 if none
RECURSIVE WritableIndexOf(_, _, _, _)
WritableIndexOf(regions, address, size, i) ==
    IF i > Len(regions) THEN 0
    ELSE IF /\ regions[i].base_address <= address
            /\ address <= regions[i].base_address + regions[i].size - size
         THEN i
         ELSE WritableIndexOf(regions, address, size, i + 1)

\* write_mock_value: the buffers afterwards
write_mock_value(is_mock, regions, data, address, value_type, value) ==
    IF ~is_mock \/ value_type \notin DOMAIN VALUE_FORMATS THEN data
    ELSE LET size == VALUE_FORMATS[value_type]
             packed == struct_pack(value_type, normalize_for_type(value, value_type)).bytes
             i == WritableIndexOf(regions, address, size, 1)
         IN IF i = 0 THEN data
            ELSE LET start == regions[i].base_address IN
                 [data EXCEPT ![start] = Splice(data[start], address - start, packed)]

\* the value advances whatever type is scanned
advance_mock_dynamic_value_AnyType(is_mock, regions, data, md, value_type) ==
    IF ~is_mock \/ md.addr = Nothing
    THEN [data |-> data, md |-> md]
    ELSE LET next_value == md.value + md.step IN
         [data |-> write_mock_value(is_mock, regions, data, md.addr[1], value_type,
                                    PyInt(next_value)),
          md |-> [md EXCEPT !.value = next_value]]

\* advance_mock_dynamic_value: the buffers and the mock-dynamic record afterwards
advance_mock_dynamic_value(is_mock, regions, data, md, value_type) ==
    IF ~is_mock \/ md.addr = Nothing \/ value_type # md.type
    THEN [data |-> data, md |-> md]
    ELSE LET next_value == md.value + md.step IN
         [data |-> write_mock_value(is_mock, regions, data, md.addr[1], value_type,
                                    PyInt(next_value)),
          md |-> [md EXCEPT !.value = next_value]]

(***************************************************************************)
(* Candidate filter.                                                       *)
(***************************************************************************)
\* compare_snapshots: address -> <<old, new>> for the addresses of both maps
compare_snapshots(previous, current) ==
    [a \in (DOMAIN previous) \cap (DOMAIN current) |-> <<previous[a], current[a]>>]

\* filter_snapshot_by_regions
filter_snapshot_by_regions(snapshot, regions) ==
    [a \in {x \in DOMAIN snapshot : InRegions(regions, x)} |-> snapshot[a]]

\* values_equal for the integer types
values_equal(old, new, value_type) == new = old

Satisfies(pair, relation, value_type) ==
    IF relation = "increase" THEN pair[2] > pair[1]
    ELSE IF relation = "decrease" THEN pair[2] < pair[1]
    ELSE IF relation = "same" THEN values_equal(pair[1], pair[2], value_type)
    ELSE FALSE

\* the old value of each pair is kept
filter_candidates_Old(comparisons, relation, value_type) ==
    [a \in {x \in DOMAIN comparisons : Satisfies(comparisons[x], relation, value_type)}
        |-> comparisons[a][1]]

\* filter_candidates: address -> new value
filter_candidates(comparisons, relation, value_type) ==
    [a \in {x \in DOMAIN comparisons : Satisfies(comparisons[x], relation, value_type)}
        |-> comparisons[a][2]]

(***************************************************************************)
(* Region narrowing.                                                       *)
(***************************************************************************)
RECURSIVE SelectSeq2(_, _, _)
SelectSeq2(regions, start_bound, end_bound) ==
    IF regions = <<>> THEN <<>>
    ELSE (IF /\ Head(regions).base_address < end_bound
             /\ Head(regions).base_address + Head(regions).size > start_bound
          THEN <<Head(regions)>> ELSE <<>>)
         \o SelectSeq2(Tail(regions), start_bound, end_bound)

SetMin(S) == CHOOSE x \in S : \A y \in S : x <= y
SetMax(S) == CHOOSE x \in S : \A y \in S : x >= y

\* prompt_region_reduction; a bound left blank or unparsable is Nothing
prompt_region_reduction(regions, start_in, end_in) ==
    IF regions = <<>> THEN <<>>
    ELSE LET overall_start == SetMin({r.base_address : r \in Range(regions)})
             overall_end == SetMax({r.base_address + r.size : r \in Range(regions)})
             start_bound == IF start_in = Nothing THEN overall_start ELSE start_in[1]
             end_bound == IF end_in = Nothing THEN overall_end ELSE end_in[1]
             trimmed == SelectSeq2(regions, start_bound, end_bound)
         IN IF start_bound >= end_bound THEN regions
            ELSE IF trimmed = <<>> THEN regions
            ELSE trimmed

(***************************************************************************)
(* Dynamic scan controller.                                                *)
(***************************************************************************)
\* len(candidates), 0 when candidates is None (Nothing)
Count(candidates) ==
    IF candidates = Nothing THEN 0 ELSE Cardinality(DOMAIN candidates[1])

\* sorted(keys)
RECURSIVE Sorted(_)
Sorted(S) == IF S = {} THEN <<>> ELSE <<SetMin(S)>> \o Sorted(S \ {SetMin(S)})

\* if max_steps and step_counter >= max_steps
BudgetExhausted(d) == d.max_steps # 0 /\ d.step_counter >= d.max_steps

\* the budget branch of the loop: candidates = None; break
StepExhausted_Keep(d) == [d EXCEPT !.pc = "done"]

StepExhausted(d) == [d EXCEPT !.candidates = Nothing, !.pc = "done"]

\* the comparisons of one step
StepComparisons_Fresh(d, next_snapshot) ==
    compare_snapshots(d.previous_snapshot, next_snapshot)

StepComparisons(d, next_snapshot) ==
    IF d.candidates = Nothing
    THEN compare_snapshots(d.previous_snapshot, next_snapshot)
    ELSE [a \in (DOMAIN d.candidates[1]) \cap (DOMAIN next_snapshot) |->
            <<d.candidates[1][a], next_snapshot[a]>>]

\* the step from the trend prompt on; prompt_trend returns None for quit
StepFilter(d, next_snapshot, comparisons, relation) ==
    IF relation = "quit"
    THEN [dyn |-> [d EXCEPT !.candidates = Nothing, !.pc = "done"],
          exit |-> "quit_trend", filtered |-> -1, trend |-> relation]
    ELSE LET cands == filter_candidates(comparisons, relation, d.value_type)
             count == Cardinality(DOMAIN cands)
         IN IF count <= 3 /\ count > 0
            THEN [dyn |-> [d EXCEPT !.candidates = Some(cands), !.pc = "done"],
                  exit |-> "narrowed", filtered |-> count, trend |-> relation]
            ELSE IF count = 0
            THEN [dyn |-> [d EXCEPT !.candidates = Nothing,
                                    !.previous_snapshot = next_snapshot],
                  exit |-> "none", filtered |-> count, trend |-> relation]
            ELSE [dyn |-> [d EXCEPT !.candidates = Some(cands),
                                    !.previous_snapshot = next_snapshot],
                  exit |-> "none", filtered |-> count, trend |-> relation]

\* the step from the snapshot on; narrow is Nothing or the window typed in
\* after a slow snapshot; seen is what the step worked
\* on: the two snapshots after the narrowing and the comparisons built
StepScan(d, snap, narrow, relation) ==
    LET reduced == IF narrow = Nothing THEN d.baseline_regions
                   ELSE prompt_region_reduction(d.baseline_regions, narrow[1], narrow[2])
        previous == IF narrow = Nothing THEN d.previous_snapshot
                    ELSE filter_snapshot_by_regions(d.previous_snapshot, reduced)
        next_snapshot == IF narrow = Nothing THEN snap
                         ELSE filter_snapshot_by_regions(snap, reduced)
        d1 == [d EXCEPT !.baseline_regions = reduced, !.previous_snapshot = previous]
        comparisons == StepComparisons(d1, next_snapshot)
        seen == [previous |-> previous, next_snapshot |-> next_snapshot,
                 comparisons |-> comparisons]
    IN IF DOMAIN comparisons = {}
       THEN [dyn |-> [d1 EXCEPT !.previous_snapshot = next_snapshot],
             exit |-> "none", filtered |-> -1, trend |-> None, seen |-> seen]
       ELSE StepFilter(d1, next_snapshot, comparisons, relation) @@ [seen |-> seen]

\* if context.mock: advance_mock_dynamic_value(context, value_type)
StepAdvance(d, is_mock, regions, data, md) ==
    IF is_mock THEN advance_mock_dynamic_value(is_mock, regions, data, md, d.value_type)
    ELSE [data |-> data, md |-> md]

\* next_snapshot = take_snapshot(context, baseline_regions, value_type, chunk_size)
StepSnapshot(d, regions, data) ==
    take_snapshot(regions, data, d.baseline_regions, d.value_type, d.chunk_size)

\* one pass of the while loop; adv and snap are the memory after the mock
\* advance and the snapshot taken of it, used when the operator does not quit
Iteration(d, h, data, md, adv, snap, ready, narrow, relation) ==
    IF BudgetExhausted(d)
    THEN [dyn |-> StepExhausted(d), data |-> data, md |-> md,
          hist |-> [h EXCEPT !.exit = "exhausted"]]
    ELSE LET d0 == [d EXCEPT !.step_counter = d.step_counter + 1] IN
         IF ready = "q"
         THEN [dyn |-> [d0 EXCEPT !.candidates = Nothing, !.pc = "done"],
               data |-> data, md |-> md,
               hist |-> [exit |-> "quit_ready", filtered |-> -1,
                         carried |-> Count(d.candidates),
                         decreasing |-> h.decreasing]]
         ELSE LET out == StepScan(d0, snap, narrow, relation)
              IN [dyn |-> out.dyn, data |-> adv.data, md |-> adv.md,
                  hist |-> [exit |-> out.exit, filtered |-> out.filtered,
                            carried |-> Count(d.candidates),
                            decreasing |-> h.decreasing /\ out.trend \in {None, "decrease"}]]

\* the return value of run_dynamic_scan_loop
DynamicResult(d) ==
    [addresses |-> IF Count(d.candidates) > 0 THEN Sorted(DOMAIN d.candidates[1]) ELSE <<>>,
     values |-> IF Count(d.candidates) > 0 THEN d.candidates[1] ELSE EmptyDict,
     value_type |-> d.value_type,
     regions |-> d.baseline_regions,
     steps |-> d.step_counter]

(***************************************************************************)
(* Specification of the dynamic scan: mock context or a live target.       *)
(***************************************************************************)
\* --chunk-size when not given
DefaultChunkSize == 16384

\* --max-steps of the mock demonstration
MockSteps == 4

\* steps of one run the model follows
MaxSteps == 3
\* largest --max-steps
MaxStepsArg == 2

\* the values a live target stores in its int32 variables
TargetValues == {0, 1}

\* the layout of build_mock_context scaled to three and two int32 slots;
\* the mock-dynamic int32 (30, step -1) is the second slot of region 1
DynRegions == <<Region(Base1, 12), Region(Base2, 8)>>
MockDynamicAddr == Base1 + 4
MockMemory ==
    (Base1 :> (LEBytes(123456, 4) \o LEBytes(30, 4) \o Zeros(4))) @@ (Base2 :> Zeros(8))
\* a mock value that counts up
MockDynamic_Up == [addr |-> Some(MockDynamicAddr), type |-> "int32", value |-> 30, step |-> 1]

MockDynamic == [addr |-> Some(MockDynamicAddr), type |-> "int32", value |-> 30, step |-> -1]

\* the target's five int32 variables: the first k hold one value and the
\* others the other value
TargetVectors ==
    {[i \in 1..5 |-> IF i <= k THEN a ELSE b] :
        k \in 0..5, a \in TargetValues, b \in TargetValues}

TargetMemories ==
    {(Base1 :> (LEBytes(v[1], 4) \o LEBytes(v[2], 4) \o LEBytes(v[3], 4)))
        @@ (Base2 :> (LEBytes(v[4], 4) \o LEBytes(v[5], 4))) :
     v \in TargetVectors}

InitDyn ==
    /\ mock_regions = DynRegions
    /\ mock \in BOOLEAN
    /\ IF mock THEN mock_data = MockMemory /\ mock_dynamic = MockDynamic
       ELSE mock_data \in TargetMemories /\ mock_dynamic = NoDynamic
    /\ op = Idle
    /\ DynUnused
    /\ PatchUnused

\* run_dynamic_scan_loop up to the loop: the baseline snapshot
DynStart ==
    /\ dyn.pc = "idle"
    /\ op.name = "none"
    /\ \E value_kind \in {None, "int32"}, args_chunk_size \in {6, DefaultChunkSize},
          args_max_steps \in {Nothing} \cup {Some(n) : n \in 0..MaxStepsArg}
                                \cup {Some(MockSteps)} :
         /\ (value_kind = None => mock)
         /\ (args_max_steps = Some(MockSteps) => mock /\ args_chunk_size = DefaultChunkSize)
         /\ LET value_type == IF value_kind # None THEN value_kind ELSE mock_dynamic.type
                chunk_size == DynamicChunkSize(args_chunk_size, value_type)
            IN dyn' = [pc |-> "loop",
                       value_type |-> value_type,
                       chunk_size |-> chunk_size,
                       max_steps |-> IF args_max_steps = Nothing THEN 0
                                     ELSE args_max_steps[1],
                       baseline_regions |-> mock_regions,
                       previous_snapshot |-> take_snapshot(mock_regions, mock_data,
                                                           mock_regions, value_type,
                                                           chunk_size),
                       candidates |-> Nothing,
                       step_counter |-> 0]
    /\ UNCHANGED <<memVars, op, hist, session, patchVars>>

NarrowInputs ==
    {Nothing, <<Nothing, Some(Base2)>>, <<Some(Base1 + 4), Nothing>>,
     <<Some(Base2), Some(Base1)>>}

\* one pass of the loop, with the operator's answers
DynStep ==
    /\ dyn.pc = "loop"
    /\ BudgetExhausted(dyn) \/ dyn.step_counter < MaxSteps
    /\ LET adv == StepAdvance(dyn, mock, mock_regions, mock_data, mock_dynamic)
           snap == StepSnapshot(dyn, mock_regions, adv.data)
       IN \E ready \in {"", "q"}, narrow \in NarrowInputs,
             relation \in {"increase", "decrease", "same", "quit"} :
         LET out == Iteration(dyn, hist, mock_data, mock_dynamic, adv, snap,
                              ready, narrow, relation)
         IN /\ dyn' = out.dyn
            /\ mock_data' = out.data
            /\ mock_dynamic' = out.md
            /\ hist' = out.hist
            /\ op' = IF out.dyn.pc = "done"
                     THEN [name |-> "run_dynamic_scan_loop", result |-> DynamicResult(out.dyn)]
                     ELSE op
    /\ UNCHANGED <<mock_regions, mock, session, patchVars>>

\* a live target changes its variables between two steps
TargetWrites ==
    /\ ~mock
    /\ dyn.pc = "loop"
    /\ \E m \in TargetMemories : m # mock_data /\ mock_data' = m
    /\ UNCHANGED <<mock_regions, mock, mock_dynamic, op, dynVars, patchVars>>

NextDyn == DynStart \/ DynStep \/ TargetWrites

SpecDyn == InitDyn /\ [][NextDyn]_vars

\* a step of the loop was executed: the step counter advanced
StepExecuted == dyn.pc = "loop" /\ dyn'.step_counter = dyn.step_counter + 1

\* C3 as stated: after every step but the first, the number of candidates
\* held is at most the number held after the step before it, also after a
\* step that dropped an empty candidate set.
C3_NeverGrows ==
    [][(StepExecuted /\ dyn.step_counter >= 1)
         => Count(dyn'.candidates) <= Count(dyn.candidates)]_vars

\* C3 amended: a candidate set that is carried into a step never grows in
\* that step; only a step that starts without one (the first, or the one
\* after an empty set was dropped) may raise the count from zero.
C3_CarriedNeverGrows ==
    [][(StepExecuted /\ dyn.candidates # Nothing)
         => /\ Count(dyn'.candidates) <= Count(dyn.candidates)
            /\ dyn'.candidates # Nothing =>
                 DOMAIN dyn'.candidates[1] \subseteq DOMAIN dyn.candidates[1]]_vars

\* a step carried five candidates in and kept four of them
C3_Witness ==
    /\ hist.carried = 5
    /\ hist.filtered = 4
    /\ Count(dyn.candidates) = hist.filtered

\* C10: the loop returns no address or one to three; it returns addresses
\* exactly when the filter of the last executed step left one to three
\* candidates, and none when the budget ran out or the operator quit.
C10_ReturnShape ==
    dyn.pc = "done" =>
        /\ op.name = "run_dynamic_scan_loop"
        /\ Len(op.result.addresses) \in 0..3
        /\ (Len(op.result.addresses) > 0) <=> (hist.filtered \in 1..3)
        /\ hist.filtered \in 1..3 => Len(op.result.addresses) = hist.filtered
        /\ hist.exit \in {"exhausted", "quit_ready", "quit_trend"} =>
             op.result.addresses = <<>>
        /\ hist.exit \in {"exhausted", "quit_ready", "quit_trend", "narrowed"}

\* the budget ran out while four candidates were carried
C10_Witness ==
    /\ dyn.pc = "done"
    /\ hist.exit = "exhausted"
    /\ hist.filtered = 4
    /\ op.result.addresses = <<>>

(***************************************************************************)
(* Value codec of the addon (utils.py).                                    *)
(***************************************************************************)
\* byte widths of utils.VALUE_TYPES; the integer types are modelled
VALUE_TYPES == [int32 |-> 4, int64 |-> 8]

\* utils.pack_value: int(round(value)) for the int types, then struct.pack;
\* ok = FALSE when ensure_value_type raises
utils_pack_value(value, value_type) ==
    IF value_type \notin DOMAIN VALUE_TYPES THEN [ok |-> FALSE, bytes |-> <<>>]
    ELSE [ok |-> TRUE, bytes |-> LEBytes(PyRound(value.h), VALUE_TYPES[value_type])]

\* utils.unpack_value: float(struct.unpack(...)); ok = FALSE on struct.error
utils_unpack_value(raw, value_type) ==
    IF Len(raw) # VALUE_TYPES[value_type] THEN [ok |-> FALSE, value |-> PyFloat(0)]
    ELSE [ok |-> TRUE, value |-> PyFloat(2 * SignedLE(raw))]

\* utils.read_value with process_inspector.read_process_memory as callback
read_value(regions, data, address, value_type) ==
    LET rd == read_process_memory(regions, data, address, VALUE_TYPES[value_type]) IN
    IF ~rd.ok THEN [ok |-> FALSE, value |-> PyFloat(0)]
    ELSE utils_unpack_value(rd.data, value_type)

(***************************************************************************)
(* Write and enforcement (auto_patch.py).                                  *)
(***************************************************************************)
CONFIRMATION_PHRASE == "YES I OWN THIS COPY"

\* what the operator may type at the confirmation prompt
Answers == {CONFIRMATION_PHRASE, ""}

\* require_write_confirmation: the answer is read only when nothing is recorded
require_write_confirmation(confirmed, answer) ==
    IF confirmed THEN [ok |-> TRUE, confirmed |-> TRUE]
    ELSE IF answer = CONFIRMATION_PHRASE THEN [ok |-> TRUE, confirmed |-> TRUE]
    ELSE [ok |-> FALSE, confirmed |-> FALSE]

\* the write is accepted wherever it starts inside a region, and what does
\* not fit is dropped
write_mock_memory_Partial(regions, data, address, bytes) ==
    LET i == RegionIndexOf(regions, address, 1) IN
    IF i = 0 THEN [ok |-> FALSE, data |-> data]
    ELSE LET start == regions[i].base_address IN
         [ok |-> TRUE,
          data |-> [data EXCEPT ![start] = Splice(data[start], address - start, bytes)]]

\* the write is accepted wherever it starts inside a region, and the slice
\* assignment makes the buffer longer by what does not fit
write_mock_memory_Growing(regions, data, address, bytes) ==
    LET i == RegionIndexOf(regions, address, 1) IN
    IF i = 0 THEN [ok |-> FALSE, data |-> data]
    ELSE LET start == regions[i].base_address
             offset == address - start
             block == data[start]
         IN [ok |-> TRUE,
             data |-> [data EXCEPT ![start] =
                         SubSeq(block, 1, offset) \o bytes
                             \o SubSeq(block, offset + Len(bytes) + 1, Len(block))]]

\* _write_mock_memory: the buffers afterwards, ok = FALSE for ValueError
write_mock_memory(regions, data, address, bytes) ==
    LET i == WritableIndexOf(regions, address, Len(bytes), 1) IN
    IF i = 0 THEN [ok |-> FALSE, data |-> data]
    ELSE LET start == regions[i].base_address IN
         [ok |-> TRUE,
          data |-> [data EXCEPT ![start] = Splice(data[start], address - start, bytes)]]

\* abs(verification - float(value)) < 1e-4, on numbers held as halves
Verified(verification, value) == Abs(verification.h - value.h) * 5000 < 1

\* one line of the patch log
LogLine(result, action, reason) ==
    [address |-> result.address, dry_run |-> result.dry_run, success |-> result.success,
     verified |-> result.verified, error |-> result.error,
     action |-> action, reason |-> reason]

\* the state the write path works on
PatchState(data, confirmed, log) == [data |-> data, confirmed |-> confirmed, log |-> log]

\* write_process_value: the state afterwards and the result dict; raised is
\* TRUE when packing raises before anything is done
write_process_value(st, regions, address, value, value_type, read_callback, dry_run, require_confirmation, answer) ==
    LET packed == utils_pack_value(value, value_type)
        result == [address |-> address, value |-> value, value_type |-> value_type,
                   dry_run |-> dry_run, success |-> FALSE, verified |-> FALSE,
                   error |-> None]
        conf == IF require_confirmation
                THEN require_write_confirmation(st.confirmed, answer)
                ELSE [ok |-> TRUE, confirmed |-> st.confirmed]
        st1 == [st EXCEPT !.confirmed = conf.confirmed]
        action == IF dry_run THEN "dry_run" ELSE "write"
        Done(st2, res) ==
            [raised |-> FALSE,
             st |-> [st2 EXCEPT !.log = Append(@, LogLine(res, action, None))],
             result |-> res]
    IN IF ~packed.ok THEN [raised |-> TRUE, st |-> st, result |-> result]
       ELSE IF ~conf.ok
       THEN LET res == [result EXCEPT !.error = "confirmation_missing"] IN
            [raised |-> FALSE,
             st |-> [st1 EXCEPT !.log = Append(@, LogLine(res, "skip", "confirmation_missing"))],
             result |-> res]
       ELSE IF dry_run THEN Done(st1, [result EXCEPT !.success = TRUE])
       ELSE LET w == write_mock_memory(regions, st1.data, address, packed.bytes) IN
            IF ~w.ok THEN Done(st1, [result EXCEPT !.error = "out_of_bounds"])
            ELSE LET st2 == [st1 EXCEPT !.data = w.data]
                     ok == [result EXCEPT !.success = TRUE]
                 IN IF ~read_callback THEN Done(st2, ok)
                    ELSE LET rd == read_value(regions, w.data, address, value_type) IN
                         IF ~rd.ok THEN Done(st2, [ok EXCEPT !.error = "read_failed"])
                         ELSE Done(st2, [ok EXCEPT !.verified = Verified(rd.value, value)])

\* the batch gives up at the first write that does not succeed
RECURSIVE auto_apply_patch_StopOnError(_, _, _, _, _, _, _, _, _, _)
auto_apply_patch_StopOnError(st, regions, addresses, value, value_type, read_callback, dry_run, require_confirmation, answers, i) ==
    IF i > Len(addresses) THEN [raised |-> FALSE, st |-> st, results |-> <<>>]
    ELSE LET w == write_process_value(st, regions, addresses[i], value, value_type,
                                      read_callback, dry_run,
                                      require_confirmation /\ ~dry_run, answers[i])
         IN IF w.raised THEN [raised |-> TRUE, st |-> st, results |-> <<>>]
            ELSE IF ~w.result.success
            THEN [raised |-> FALSE, st |-> w.st, results |-> <<w.result>>]
            ELSE LET rest == auto_apply_patch_StopOnError(w.st, regions, addresses, value,
                                                          value_type, read_callback, dry_run,
                                                          require_confirmation, answers, i + 1)
                 IN [raised |-> rest.raised, st |-> rest.st,
                     results |-> <<w.result>> \o rest.results]

\* auto_apply_patch: one write_process_value per address, in order; answers[i]
\* is what the operator types if the i-th write prompts
RECURSIVE auto_apply_patch(_, _, _, _, _, _, _, _, _, _)
auto_apply_patch(st, regions, addresses, value, value_type, read_callback, dry_run, require_confirmation, answers, i) ==
    IF i > Len(addresses) THEN [raised |-> FALSE, st |-> st, results |-> <<>>]
    ELSE LET w == write_process_value(st, regions, addresses[i], value, value_type,
                                      read_callback, dry_run,
                                      require_confirmation /\ ~dry_run, answers[i])
         IN IF w.raised THEN [raised |-> TRUE, st |-> st, results |-> <<>>]
            ELSE LET rest == auto_apply_patch(w.st, regions, addresses, value, value_type,
                                              read_callback, dry_run, require_confirmation,
                                              answers, i + 1)
                 IN [raised |-> rest.raised, st |-> rest.st,
                     results |-> <<w.result>> \o rest.results]

(***************************************************************************)
(* The autopatch pipeline (patch_runner.py).                               *)
(***************************************************************************)
\* defaults that write unless told otherwise
DEFAULT_CONFIG_Live ==
    [auto_threshold |-> 3, dry_run |-> FALSE, log_path |-> "addon_patch_log.txt",
     enforce_interval |-> 0]

DEFAULT_CONFIG ==
    [auto_threshold |-> 3, dry_run |-> TRUE, log_path |-> "addon_patch_log.txt",
     enforce_interval |-> 0]

\* load_addon_config: the defaults updated with the dict read from the file;
\* loaded is the empty dict when there is no file or it holds no dict
load_addon_config(loaded) == Update(DEFAULT_CONFIG, loaded)

\* config.get(key)
Get(config, key) == IF key \in DOMAIN config THEN Some(config[key]) ELSE Nothing

\* _resolve_patch_value: the command line, then the configuration, then the
\* first discovered value
resolve_patch_value(args_value, config, discovered_values) ==
    IF args_value # Nothing THEN args_value
    ELSE IF Get(config, "patch_value") # Nothing THEN Get(config, "patch_value")
    ELSE IF discovered_values # <<>> THEN Some(PyFloat(2 * discovered_values[1]))
    ELSE Nothing

\* _resolve_patch_type
resolve_patch_type(args_type, config, fallback_type) ==
    IF args_type # None THEN args_type
    ELSE IF Get(config, "patch_type") # Nothing THEN config["patch_type"]
    ELSE fallback_type

\* should_auto_patch: 0 < count <= max(1, threshold)
should_auto_patch(addresses, threshold) ==
    0 < Len(addresses) /\ Len(addresses) <= Max(1, threshold)

\* how execute_autopatch ended, what it decided and the state afterwards
Outcome(outcome, st, threshold, patch_value, dry_run, batch, enforce) ==
    [outcome |-> outcome, st |-> st, threshold |-> threshold,
     patch_value |-> patch_value, dry_run |-> dry_run, batch |-> batch,
     enforce |-> enforce]

\* the file's enforce_interval wins over the command line
watch_interval_ConfigFirst(args, config) ==
    IF config["enforce_interval"] # 0 THEN config["enforce_interval"]
    ELSE IF args.enforce_interval # Nothing THEN args.enforce_interval[1]
    ELSE 0

\* watch_interval of execute_autopatch: --enforce-interval if given, else
\* the configuration's enforce_interval (0.0 by default)
watch_interval(args, config) ==
    IF args.enforce_interval # Nothing THEN args.enforce_interval[1]
    ELSE config["enforce_interval"]

\* execute_autopatch up to the enforcement loop; enforce says whether the
\* loop is entered
execute_autopatch(st, regions, addresses, args, value_type, discovered_values, loaded, answer) ==
    LET config == load_addon_config(loaded)
        threshold == IF args.auto_threshold # Nothing THEN args.auto_threshold[1]
                     ELSE config["auto_threshold"]
        patch_value == resolve_patch_value(args.patch_value, config, discovered_values)
        patch_type == resolve_patch_type(args.patch_type, config, value_type)
        dry_run == IF args.addon_dry_run # Nothing THEN args.addon_dry_run[1]
                   ELSE config["dry_run"]
        conf == IF dry_run THEN [ok |-> TRUE, confirmed |-> st.confirmed]
                ELSE require_write_confirmation(st.confirmed, answer)
        st1 == [st EXCEPT !.confirmed = conf.confirmed]
        batch == auto_apply_patch(st1, regions, addresses, patch_value[1], patch_type,
                                  TRUE, dry_run, FALSE,
                                  [i \in 1..Len(addresses) |-> answer], 1)
    IN IF addresses = <<>>
       THEN Outcome("no_addresses", st, Nothing, Nothing, Nothing, FALSE, FALSE)
       ELSE IF ~should_auto_patch(addresses, threshold)
       THEN Outcome("threshold", st, Some(threshold), Nothing, Nothing, FALSE, FALSE)
       ELSE IF patch_value = Nothing
       THEN Outcome("no_value", st, Some(threshold), Nothing, Nothing, FALSE, FALSE)
       ELSE IF patch_type \notin DOMAIN VALUE_TYPES
       THEN Outcome("raised", st, Some(threshold), patch_value, Nothing, FALSE, FALSE)
       ELSE IF ~args.dynamic
       THEN Outcome("not_dynamic", st, Some(threshold), patch_value, Nothing, FALSE, FALSE)
       ELSE IF ~conf.ok
       THEN Outcome("aborted", st1, Some(threshold), patch_value, Some(dry_run), FALSE, FALSE)
       ELSE Outcome("applied", batch.st, Some(threshold), patch_value, Some(dry_run),
                    TRUE, watch_interval(args, config) > 0)

\* the arguments of the enforcement loop, kept while it runs
Watching(addresses, value, value_type, read_callback, dry_run, require_confirmation) ==
    [pc |-> "watch", addresses |-> addresses, value |-> value, value_type |-> value_type,
     read_callback |-> read_callback, dry_run |-> dry_run,
     require_confirmation |-> require_confirmation, iterations |-> 0]

(***************************************************************************)
(* The autopatch stage of one session.                                     *)
(***************************************************************************)
MaxWatchIters == 2

\* the mock target of build_mock_context, five int32 slots
InitPatch ==
    /\ mock_regions = DynRegions
    /\ mock_data = MockMemory
    /\ mock = TRUE
    /\ mock_dynamic = NoDynamic
    /\ op = Idle
    /\ DynUnused
    /\ PatchUnused

\* a dict with the one entry key: value, or none when value is Nothing
Entry(key, value) == IF value = Nothing THEN EmptyDict ELSE key :> value[1]

\* the dicts an addon_config.json may hold
ConfigFiles ==
    {Entry("auto_threshold", t) @@ Entry("dry_run", d) @@ Entry("patch_value", v)
        @@ Entry("enforce_interval", e) :
        t \in {Nothing, Some(1)}, d \in {Nothing, Some(TRUE), Some(FALSE)},
        v \in {Nothing, Some(PyFloat(100))}, e \in {Nothing, Some(1)}}

\* the parsed command lines
ArgSets ==
    [auto_threshold : {Nothing, Some(-1), Some(0), Some(2)},
     patch_value : {Nothing, Some(PyFloat(7))},
     patch_type : {None, "int32"},
     dynamic : BOOLEAN,
     addon_dry_run : {Nothing, Some(TRUE), Some(FALSE)},
     enforce_interval : {Nothing, Some(-1), Some(1)}]

\* candidate lists: none, one, two, four, five, and one outside every region
AddressLists ==
    {<<>>, <<Base1 + 4>>, <<Base1 + 4, Base2>>,
     <<Base1, Base1 + 4, Base1 + 8, Base2>>,
     <<Base1, Base1 + 4, Base1 + 8, Base2, Base2 + 4>>, <<Base2 + 6>>}

PatchState0 == PatchState(mock_data, confirmation_granted, patch_log)

\* what a call of execute_autopatch leaves behind
AutopatchDone(via, r, addresses, args, loaded, value_type) ==
    /\ mock_data' = r.st.data
    /\ confirmation_granted' = r.st.confirmed
    /\ patch_log' = r.st.log
    /\ op' = [name |-> "execute_autopatch", via |-> via, outcome |-> r.outcome,
              n |-> Len(addresses), threshold |-> r.threshold,
              dynamic |-> args.dynamic, patch_value |-> r.patch_value,
              batch |-> r.batch, dry_run |-> r.dry_run,
              args_dry_run |-> args.addon_dry_run,
              config_dry_run |-> Get(loaded, "dry_run"),
              args_interval |-> args.enforce_interval,
              config_interval |-> Get(loaded, "enforce_interval"),
              before |-> mock_data]
    /\ watch' = IF r.enforce
                THEN Watching(addresses, r.patch_value[1],
                              resolve_patch_type(args.patch_type, load_addon_config(loaded),
                                                 value_type),
                              TRUE, r.dry_run[1], FALSE)
                ELSE WatchIdle
    /\ calls' = calls + 1
    /\ UNCHANGED <<mock_regions, mock, mock_dynamic, dynVars>>

\* execute_autopatch called with a candidate list of the caller's choosing
ExecuteAutopatch ==
    /\ calls = 0
    /\ watch.pc = "idle"
    /\ \E addresses \in AddressLists, args \in ArgSets, loaded \in ConfigFiles,
          value_type \in {"int32", "uint32"}, discovered \in BOOLEAN,
          answer \in Answers :
         LET values == IF discovered THEN [i \in 1..Len(addresses) |-> 30] ELSE <<>>
             r == execute_autopatch(PatchState0, mock_regions, addresses, args,
                                    value_type, values, loaded, answer)
         IN AutopatchDone("execute_autopatch", r, addresses, args, loaded, value_type)

\* the addon stage of interactive_scan: execute_autopatch on the addresses
\* the scan ended with, if the addon is in use and the scan was dynamic
AddonStage ==
    /\ calls = 0
    /\ watch.pc = "idle"
    /\ \E addresses \in AddressLists, args \in ArgSets, loaded \in ConfigFiles,
          value_type \in {"int32", "uint32"}, use_addon \in BOOLEAN,
          answer \in Answers :
         LET values == [i \in 1..Len(addresses) |-> 30]
             r == execute_autopatch(PatchState0, mock_regions, addresses, args,
                                    value_type, values, loaded, answer)
         IN IF addresses # <<>> /\ use_addon /\ args.dynamic
            THEN AutopatchDone("interactive_scan", r, addresses, args, loaded, value_type)
            ELSE /\ op' = [name |-> "interactive_scan", outcome |-> "no_addon"]
                 /\ calls' = calls + 1
                 /\ UNCHANGED <<memVars, dynVars, confirmation_granted, patch_log, watch>>

\* one round of run_watch_patch_loop: the batch write, then the sleep
WatchIteration ==
    /\ watch.pc = "watch"
    /\ watch.iterations < MaxWatchIters
    /\ \E answer \in Answers :
         LET r == auto_apply_patch(PatchState0, mock_regions, watch.addresses, watch.value,
                                   watch.value_type, watch.read_callback, watch.dry_run,
                                   watch.require_confirmation,
                                   [i \in 1..Len(watch.addresses) |-> answer], 1)
         IN /\ mock_data' = r.st.data
            /\ confirmation_granted' = r.st.confirmed
            /\ patch_log' = r.st.log
    /\ watch' = [watch EXCEPT !.iterations = @ + 1]
    /\ UNCHANGED <<mock_regions, mock, mock_dynamic, op, dynVars, calls>>

\* KeyboardInterrupt ends the loop
WatchCancel ==
    /\ watch.pc = "watch"
    /\ watch' = WatchIdle
    /\ UNCHANGED <<memVars, op, dynVars, confirmation_granted, patch_log, calls>>

\* require_write_confirmation called on its own
RequireWriteConfirmation ==
    /\ watch.pc = "idle"
    /\ ~confirmation_granted
    /\ \E answer \in Answers :
         confirmation_granted' = require_write_confirmation(confirmation_granted, answer).confirmed
    /\ UNCHANGED <<memVars, op, dynVars, patch_log, watch, calls>>

NextAutopatch ==
    ExecuteAutopatch \/ AddonStage \/ WatchIteration \/ WatchCancel
        \/ RequireWriteConfirmation

SpecAutopatch == InitPatch /\ [][NextAutopatch]_vars

\* C5: the batch write is called only if the scan was dynamic, the number of
\* candidate addresses is at most the configured auto_threshold (0 and
\* negative thresholds included) and a patch value was resolved.
C5_WriteGate ==
    (op.name = "execute_autopatch" /\ op.batch)
        => /\ op.dynamic
           /\ op.n <= op.threshold[1]
           /\ op.patch_value # Nothing

\* C8: with no dry-run/patch-live flag and no dry_run entry in the
\* configuration the pipeline runs in dry-run mode and memory stays as it was
\* before the call, through the batch write and every enforcement round; a
\* command-line flag decides the mode whatever the configuration says.
C8_DryRunDefault ==
    op.name = "execute_autopatch"
        => /\ (op.args_dry_run = Nothing /\ op.config_dry_run = Nothing)
                => /\ mock_data = op.before
                   /\ op.dry_run \in {Nothing, Some(TRUE)}
           /\ (op.args_dry_run # Nothing /\ op.dry_run # Nothing)
                => op.dry_run = op.args_dry_run

\* the default mode went through a batch write and two enforcement rounds
C8_Witness ==
    /\ op.name = "execute_autopatch"
    /\ op.args_dry_run = Nothing /\ op.config_dry_run = Nothing
    /\ op.batch
    /\ watch.pc = "watch" /\ watch.iterations = 2
    /\ Len(patch_log) = 3 * op.n
    /\ confirmation_granted

(***************************************************************************)
(* The entry points of auto_patch.py called in any order, each with the    *)
(* default of its require_confirmation keyword.                            *)
(***************************************************************************)
MaxCalls == 2

\* 3.5, 50.0 and -1.0
PatchValues == {PyFloat(7), PyFloat(100), PyFloat(-2)}

\* the dynamic slot, the second half of region 2, and an int32 that would
\* run over the end of region 2
PatchAddresses == {Base1 + 4, Base2 + 4, Base2 + 6}

PatchTypes == {"int32", "int64", "uint32"}

\* the address lists of a batch: those of the pipeline, one with an address
\* outside every region between two writable ones, and one whose two
\* addresses are two bytes apart
BatchLists ==
    AddressLists \cup {<<Base1 + 4, Base2 + 6, Base2>>, <<Base1 + 4, Base1 + 6>>}

\* write_process_value(context, address, value, value_type, read_callback=...,
\* dry_run=...)
WriteProcessValue ==
    /\ calls < MaxCalls
    /\ watch.pc = "idle"
    /\ \E address \in PatchAddresses, value \in PatchValues, value_type \in PatchTypes,
          read_callback \in BOOLEAN, dry_run \in BOOLEAN, answer \in Answers :
         LET r == write_process_value(PatchState0, mock_regions, address, value, value_type,
                                      read_callback, dry_run, TRUE, answer)
         IN /\ mock_data' = r.st.data
            /\ confirmation_granted' = r.st.confirmed
            /\ patch_log' = r.st.log
            /\ op' = [name |-> "write_process_value", raised |-> r.raised,
                      read_callback |-> read_callback, result |-> r.result,
                      before |-> mock_data]
    /\ calls' = calls + 1
    /\ UNCHANGED <<mock_regions, mock, mock_dynamic, dynVars, watch>>

\* one call of auto_apply_patch on a list of lists
ApplyBatch(lists) ==
    /\ watch.pc = "idle"
    /\ \E addresses \in lists, value \in PatchValues, value_type \in PatchTypes,
          read_callback \in BOOLEAN, dry_run \in BOOLEAN, answer \in Answers :
         LET r == auto_apply_patch(PatchState0, mock_regions, addresses, value, value_type,
                                   read_callback, dry_run, TRUE,
                                   [i \in 1..Len(addresses) |-> answer], 1)
         IN /\ mock_data' = r.st.data
            /\ confirmation_granted' = r.st.confirmed
            /\ patch_log' = r.st.log
            /\ op' = [name |-> "auto_apply_patch", raised |-> r.raised,
                      dry_run |-> dry_run, results |-> r.results, before |-> mock_data,
                      addresses |-> addresses, value |-> value, value_type |-> value_type,
                      logged |-> Len(patch_log)]
    /\ calls' = calls + 1
    /\ UNCHANGED <<mock_regions, mock, mock_dynamic, dynVars, watch>>

\* auto_apply_patch(context, addresses, value, value_type, read_callback=...,
\* dry_run=...)
AutoApplyPatch == calls < MaxCalls /\ ApplyBatch(AddressLists)

\* run_watch_patch_loop(context, addresses, value, value_type, interval=...,
\* read_callback=..., dry_run=...) up to its loop
RunWatchPatchLoop ==
    /\ calls < MaxCalls
    /\ watch.pc = "idle"
    /\ \E addresses \in AddressLists, value \in PatchValues,
          value_type \in DOMAIN VALUE_TYPES, read_callback \in BOOLEAN,
          dry_run \in BOOLEAN :
         /\ watch' = Watching(addresses, value, value_type, read_callback, dry_run, FALSE)
         /\ op' = [name |-> "run_watch_patch_loop", dry_run |-> dry_run,
                   before |-> mock_data]
    /\ calls' = calls + 1
    /\ UNCHANGED <<memVars, dynVars, confirmation_granted, patch_log>>

NextPatch ==
    WriteProcessValue \/ AutoApplyPatch \/ RunWatchPatchLoop \/ WatchIteration
        \/ WatchCancel \/ RequireWriteConfirmation

SpecPatch == InitPatch /\ [][NextPatch]_vars

\* Batch writes on their own: auto_apply_patch over lists that mix writable
\* and unwritable addresses.
MaxBatches == 1

BatchWrite == calls < MaxBatches /\ ApplyBatch(BatchLists)

NextBatch == BatchWrite

SpecBatch == InitPatch /\ [][NextBatch]_vars

\* C6: memory changes only in a session that has the confirmation phrase
\* recorded, and a non-dry-run write asked for while none is recorded is
\* rejected with confirmation_missing and changes nothing.
C6_ConfirmedWrites ==
    [][/\ mock_data' # mock_data => confirmation_granted'
       /\ (/\ op'.name = "write_process_value"
           /\ calls' = calls + 1
           /\ ~op'.raised
           /\ ~op'.result.dry_run
           /\ ~confirmation_granted')
            => (op'.result.error = "confirmation_missing" /\ mock_data' = mock_data)]_vars

\* C7: a single write with the dry-run flag returns success = true,
\* verified = false, dry_run = true and leaves memory as it was, with or
\* without a recorded confirmation and whatever the address.
C7_DryRunWrite ==
    (op.name = "write_process_value" /\ ~op.raised /\ op.result.dry_run)
        => /\ op.result.success
           /\ ~op.result.verified
           /\ mock_data = op.before

\* C9: a successful non-dry-run write with a read callback is verified,
\* for every value that packs into the type.
C9_WriteVerified ==
    (/\ op.name = "write_process_value"
     /\ ~op.raised
     /\ ~op.result.dry_run
     /\ op.read_callback
     /\ op.result.success)
        => op.result.verified

(***************************************************************************)
(* Claims C11 to C20.                                                      *)
(***************************************************************************)
\* C11: the loop executes at most max_steps steps, whatever the operator
\* answers and whatever memory holds, also when max_steps is 0 or was not
\* supplied: the step counter, and the returned step count, never exceed it.
C11_StepBudget ==
    /\ dyn.pc \in {"loop", "done"} => dyn.step_counter <= dyn.max_steps
    /\ op.name = "run_dynamic_scan_loop" => op.result.steps <= dyn.max_steps

\* the mock demonstration run: int32, --max-steps 4, the default chunk size,
\* no region narrowing, no quit, and 'decrease' at every trend prompt so far
MockDemoRun ==
    /\ mock
    /\ dyn.pc \in {"loop", "done"}
    /\ dyn.value_type = "int32"
    /\ dyn.max_steps = MockSteps
    /\ dyn.chunk_size = DefaultChunkSize
    /\ dyn.baseline_regions = mock_regions
    /\ hist.decreasing
    /\ hist.exit \notin {"quit_ready", "quit_trend"}

\* C14: in the mock context the demonstration run ends within three steps
\* with one to three candidates, the mock-dynamic address among them.
C14_MockNarrowing ==
    (MockDemoRun /\ dyn.step_counter >= 1)
        => /\ dyn.pc = "done"
           /\ dyn.step_counter <= 3
           /\ op.name = "run_dynamic_scan_loop"
           /\ Len(op.result.addresses) \in 1..3
           /\ MockDynamicAddr \in Range(op.result.addresses)

\* the run ended after its first step with the mock address alone, now 29
C14_Witness ==
    /\ MockDemoRun
    /\ dyn.pc = "done"
    /\ hist.exit = "narrowed"
    /\ op.result.steps = 1
    /\ op.result.addresses = <<MockDynamicAddr>>
    /\ op.result.values[MockDynamicAddr] = 29

\* C12: a float target packs for an integer type in the scan codec as in the
\* write codec, to the little-endian bytes of the rounded value, so a manual
\* search with the float parsed from the command line does not fail.
C12_FloatPacks ==
    (op.name = "search_values" /\ op.value_type \in DOMAIN VALUE_FORMATS)
        => /\ op.result.ok
           /\ pack_value(op.target, op.value_type)
                = [ok |-> TRUE,
                   bytes |-> LEBytes(PyRound(op.target.h), VALUE_FORMATS[op.value_type])]
           /\ op.value_type \in DOMAIN VALUE_TYPES
                => pack_value(op.target, op.value_type)
                     = utils_pack_value(op.target, op.value_type)

\* C13: execute_autopatch called with more candidates than auto_threshold
\* writes nothing, leaves memory as it was and appends exactly one patch-log
\* line, with action = skip, for the refused batch.
C13_RefusalLogged ==
    (/\ op.name = "execute_autopatch"
     /\ op.threshold # Nothing
     /\ op.n > op.threshold[1])
        => /\ ~op.batch
           /\ mock_data = op.before
           /\ Len(patch_log) = 1
           /\ patch_log[1].action = "skip"

\* the addresses of the pointer words of the regions: offsets that are
\* multiples of pointer_size with a whole word inside the region
WordAddresses(regions) ==
    UNION {{regions[i].base_address + k * pointer_size :
              k \in 0..((regions[i].size \div pointer_size) - 1)} : i \in 1..Len(regions)}

\* the value of the pointer word at address a
WordAt(regions, data, a) ==
    UnsignedLE(read_process_memory(regions, data, a, pointer_size).data)

\* the chains of exactly k references that end in a seed
RECURSIVE ChainsOfLength(_, _, _, _)
ChainsOfLength(regions, data, seeds, k) ==
    IF k = 0 THEN {<<s>> : s \in Range(seeds)}
    ELSE {<<w>> \o c : w \in WordAddresses(regions),
                       c \in ChainsOfLength(regions, data, seeds, k - 1)}

\* every chain of 1 to depth references, each the address of a pointer word
\* that holds the address after it
ExpectedChains(regions, data, seeds, depth) ==
    {c \in UNION {ChainsOfLength(regions, data, seeds, k) : k \in 1..depth} :
        \A i \in 1..(Len(c) - 1) : WordAt(regions, data, c[i]) = c[i + 1]}

\* C15: trace_references emits exactly the chains of 1 to D references, each
\* an aligned pointer word holding the next address, down to a seed, and
\* each of them once.
C15_ChainsComplete ==
    op.name = "trace_references" =>
        /\ Range(op.result.chains)
             = ExpectedChains(mock_regions, mock_data, op.seeds, op.max_depth)
        /\ Cardinality(Range(op.result.chains)) = Len(op.result.chains)

\* the mock layout scaled: a word of region 2 points to the seed in region 1
\* and a word of region 1 points to that word; depth 2 returns both chains
C15_Witness ==
    /\ op.name = "trace_references"
    /\ op.seeds = <<Base1 + 4>>
    /\ op.max_depth = 2
    /\ <<Base2, Base1 + 4>> \in Range(op.result.chains)
    /\ <<Base1 + 8, Base2, Base1 + 4>> \in Range(op.result.chains)

\* a rescan with the search target, after the byte at one address found
\* was changed
RescanAfterChange == op.name = "rescan" /\ op.result.ok /\ op.x # Nothing

\* the bytes of the value at address a include the byte at address x
Covers(a, x, value_type) == a <= x /\ x < a + VALUE_FORMATS[value_type]

\* C16 as stated: the rescan reports still_valid = false for exactly the
\* address whose byte was changed and true for every other address found,
\* also when the values found overlap; an unreadable address is reported
\* false.
C16_ExactlyOneInvalid ==
    RescanAfterChange =>
        /\ DOMAIN op.result.results = Range(op.addresses)
        /\ \A a \in Range(op.found) : op.result.results[a] <=> (a # op.x[1])
        /\ \A a \in Range(op.addresses) \ Range(op.found) : ~op.result.results[a]

\* C16 amended: the rescan reports false for exactly the addresses found
\* whose value includes the changed byte, the changed address among them,
\* and true for the other addresses found; an unreadable address is
\* reported false and the rescan goes on.
C16_CoveringInvalid ==
    RescanAfterChange =>
        /\ DOMAIN op.result.results = Range(op.addresses)
        /\ ~op.result.results[op.x[1]]
        /\ \A a \in Range(op.found) :
             op.result.results[a] <=> ~Covers(a, op.x[1], op.value_type)
        /\ \A a \in Range(op.addresses) \ Range(op.found) : ~op.result.results[a]

\* the changed byte lay in two values found: both are reported false, a
\* third is still valid, and the unreadable address is reported false
C16_Witness ==
    /\ RescanAfterChange
    /\ \E a \in Range(op.found) : a # op.x[1] /\ ~op.result.results[a]
    /\ \E a \in Range(op.found) : op.result.results[a]
    /\ Unmapped \in DOMAIN op.result.results
    /\ ~op.result.results[Unmapped]

(***************************************************************************)
(* Signature windows (generate_pattern).                                   *)
(***************************************************************************)
HexDigits ==
    <<"0", "1", "2", "3", "4", "5", "6", "7", "8", "9", "A", "B", "C", "D", "E", "F">>

\* f"{byte:02X}" as its two characters
Hex02X(byte) == <<HexDigits[(byte \div 16) + 1], HexDigits[(byte % 16) + 1]>>

\* " ".join(hex_bytes) as a sequence of characters
RECURSIVE JoinSpace(_)
JoinSpace(hex_bytes) ==
    IF hex_bytes = <<>> THEN <<>>
    ELSE IF Len(hex_bytes) = 1 THEN hex_bytes[1]
    ELSE hex_bytes[1] \o <<" ">> \o JoinSpace(Tail(hex_bytes))

\* the window is not clamped at address 0
generate_pattern_Unclamped(regions, data, address, window) ==
    LET start == address - (window \div 2)
        rd == read_process_memory(regions, data, start, window)
        bytes == IF rd.ok THEN rd.data ELSE <<>>
    IN [address |-> address, start |-> start,
        pattern |-> JoinSpace([i \in 1..Len(bytes) |-> Hex02X(bytes[i])]),
        mask |-> [i \in 1..Len(bytes) |-> "x"]]

\* generate_pattern: data is b"" when the read raises
generate_pattern(regions, data, address, window) ==
    LET half == window \div 2
        start == Max(address - half, 0)
        rd == read_process_memory(regions, data, start, window)
        bytes == IF rd.ok THEN rd.data ELSE <<>>
    IN [address |-> address, start |-> start,
        pattern |-> JoinSpace([i \in 1..Len(bytes) |-> Hex02X(bytes[i])]),
        mask |-> [i \in 1..Len(bytes) |-> "x"]]

\* largest region and largest window of the signature specification
MaxPatternRegion == 4
MaxWindow == 5

\* 0x00, 0x0A, 0xAB, 0xFF
PatternBytes == {0, 10, 171, 255}

\* one region at base1, with or without a two-byte region at address 0
InitPattern ==
    /\ \E s1 \in 1..MaxPatternRegion, low \in BOOLEAN :
         /\ mock_regions = IF low THEN <<Region(0, 2), Region(Base1, s1)>>
                           ELSE <<Region(Base1, s1)>>
         /\ \E c1 \in SeqsOf(PatternBytes, s1), c0 \in {<<171, 0>>, <<10, 255>>} :
              mock_data = IF low THEN (0 :> c0) @@ (Base1 :> c1) ELSE (Base1 :> c1)
    /\ mock = TRUE
    /\ mock_dynamic = NoDynamic
    /\ op = Idle
    /\ DynUnused
    /\ PatchUnused

\* generate_pattern(context, address, window)
GeneratePattern ==
    /\ op.name = "none"
    /\ \E address \in {0, 1, 2, 3} \cup {Base1 + k : k \in 0..(MaxPatternRegion + 1)},
          window \in 0..MaxWindow :
         op' = [name |-> "generate_pattern", address |-> address, window |-> window,
                result |-> generate_pattern(mock_regions, mock_data, address, window)]
    /\ UNCHANGED <<memVars, dynVars, patchVars>>

NextPattern == GeneratePattern

SpecPattern == InitPattern /\ [][NextPattern]_vars

\* the bytes of memory from address start on, up to the end of the region
\* that holds start and at most count of them; none if no region holds it
BytesFrom(regions, data, start, count) ==
    IF \E i \in 1..Len(regions) :
          regions[i].base_address <= start /\ start < regions[i].base_address + regions[i].size
    THEN LET r == CHOOSE r \in Range(regions) :
                    r.base_address <= start /\ start < r.base_address + r.size
             n == Min(count, r.base_address + r.size - start)
         IN [i \in 1..n |-> data[r.base_address][start - r.base_address + i]]
    ELSE <<>>

\* the read of the window fails: its first address lies in no region
WindowReadFails(regions, start) ==
    ~\E i \in 1..Len(regions) :
        regions[i].base_address <= start /\ start < regions[i].base_address + regions[i].size

\* the value of an uppercase hex digit
HexValue(ch) == (CHOOSE k \in 1..16 : HexDigits[k] = ch) - 1

\* address, start, pattern and mask of a result are those of the window of
\* w bytes read from max(a - w div 2, 0)
PatternShape ==
    LET res == op.result
        start == Max(op.address - (op.window \div 2), 0)
        bytes == BytesFrom(mock_regions, mock_data, start, op.window)
        n == Len(bytes)
    IN /\ res.address = op.address
       /\ res.start = start
       /\ n <= op.window
       /\ Len(res.pattern) = IF n = 0 THEN 0 ELSE 3 * n - 1
       /\ \A i \in 1..n :
            /\ res.pattern[3 * i - 2] \in Range(HexDigits)
            /\ res.pattern[3 * i - 1] \in Range(HexDigits)
            /\ 16 * HexValue(res.pattern[3 * i - 2]) + HexValue(res.pattern[3 * i - 1])
                 = bytes[i]
            /\ i < n => res.pattern[3 * i] = " "
       /\ res.mask = [i \in 1..n |-> "x"]

\* C17 as stated: the result has address a, start max(a - w div 2, 0), n
\* two-digit uppercase hex bytes separated by single spaces and n 'x', for
\* the n <= w bytes read; pattern and mask are empty exactly when the read
\* of the window fails.
C17_PatternEmptyIffFails ==
    op.name = "generate_pattern" =>
        /\ PatternShape
        /\ (op.result.pattern = <<>> /\ op.result.mask = <<>>)
             <=> WindowReadFails(mock_regions, op.result.start)

\* C17 amended: the same shape; pattern and mask are empty exactly when the
\* read of the window fails or the window is 0 bytes long.
C17_PatternEmptyIffNoBytes ==
    op.name = "generate_pattern" =>
        /\ PatternShape
        /\ (op.result.pattern = <<>> /\ op.result.mask = <<>>)
             <=> (WindowReadFails(mock_regions, op.result.start) \/ op.window = 0)

\* a window clamped at address 0 that the region there cuts to two bytes
C17_Witness ==
    /\ op.name = "generate_pattern"
    /\ op.address = 1
    /\ op.window = 4
    /\ op.result.start = 0
    /\ op.result.pattern = <<"A", "B", " ", "0", "0">>
    /\ op.result.mask = <<"x", "x">>

\* C18: trace_references ends after at most D frontier rounds whatever
\* memory holds, pointer cycles and self-pointing words included; every
\* chain has 2 to D + 1 addresses, and the result is empty for D = 0 and
\* for an empty seed list.
C18_DepthBounded ==
    op.name = "trace_references" =>
        /\ op.result.rounds <= op.max_depth
        /\ \A c \in Range(op.result.chains) : Len(c) >= 2 /\ Len(c) <= op.max_depth + 1
        /\ (op.max_depth = 0 \/ op.seeds = <<>>) => op.result.chains = <<>>

\* a word that points to itself is the seed: one chain per round, the
\* longest of D + 1 addresses
C18_Witness ==
    /\ op.name = "trace_references"
    /\ op.max_depth = MaxDepth
    /\ op.result.rounds = MaxDepth
    /\ WordAt(mock_regions, mock_data, Base1 + 8) = Base1 + 8
    /\ [i \in 1..(MaxDepth + 1) |-> Base1 + 8] \in Range(op.result.chains)
    /\ <<Base1 + 8, Base1 + 8>> \in Range(op.result.chains)

\* a batch of real writes that were allowed: auto_apply_patch returned, not
\* in dry run, and no write was refused for want of the confirmation
BatchWritten ==
    /\ op.name = "auto_apply_patch"
    /\ ~op.raised
    /\ ~op.dry_run
    /\ \A i \in 1..Len(op.results) : op.results[i].error # "confirmation_missing"

\* the size bytes at address lie in one region
InOneRegion(address, size) ==
    \E i \in 1..Len(mock_regions) :
        /\ mock_regions[i].base_address <= address
        /\ address + size <= mock_regions[i].base_address + mock_regions[i].size

BatchSize == VALUE_TYPES[op.value_type]

\* the bytes of the memory at address are the packed new value
HoldsNewValue(address) ==
    BytesFrom(mock_regions, mock_data, address, BatchSize)
        = utils_pack_value(op.value, op.value_type).bytes

\* one result per address in input order and one log line per address; a
\* write outside the regions has success = false and its error in the
\* result and in its log line, the others succeed
BatchResults ==
    /\ Len(op.results) = Len(op.addresses)
    /\ Len(patch_log) = op.logged + Len(op.addresses)
    /\ \A i \in 1..Len(op.addresses) :
        /\ op.results[i].address = op.addresses[i]
        /\ patch_log[op.logged + i].address = op.addresses[i]
        /\ patch_log[op.logged + i].error = op.results[i].error
        /\ op.results[i].success = InOneRegion(op.addresses[i], BatchSize)
        /\ (op.results[i].error # None) = ~InOneRegion(op.addresses[i], BatchSize)

\* C19 as stated: a failed write of a batch has its result and its log line
\* and leaves the other writes alone, so that every writable address of the
\* batch holds the new value afterwards.
C19_EveryWritableHolds ==
    BatchWritten =>
        /\ BatchResults
        /\ \A i \in 1..Len(op.addresses) :
            InOneRegion(op.addresses[i], BatchSize) => HoldsNewValue(op.addresses[i])

\* a later write of the batch covers some but not all of the same bytes
OverwrittenLater(i) ==
    \E j \in (i + 1)..Len(op.addresses) :
        /\ InOneRegion(op.addresses[j], BatchSize)
        /\ op.addresses[j] # op.addresses[i]
        /\ op.addresses[j] < op.addresses[i] + BatchSize
        /\ op.addresses[i] < op.addresses[j] + BatchSize

\* C19: a failed write of a batch has its result and its log line and leaves
\* the other writes alone; a writable address holds the new value afterwards
\* unless a later write of the batch overlaps it, and the bytes outside every
\* written range are unchanged.
C19_BatchIndependent ==
    BatchWritten =>
        /\ BatchResults
        /\ \A i \in 1..Len(op.addresses) :
            (InOneRegion(op.addresses[i], BatchSize) /\ ~OverwrittenLater(i))
                => HoldsNewValue(op.addresses[i])
        /\ \A b \in DOMAIN mock_data : \A k \in 1..Len(mock_data[b]) :
            (\A i \in 1..Len(op.addresses) :
                ~(/\ InOneRegion(op.addresses[i], BatchSize)
                  /\ op.addresses[i] <= b + k - 1
                  /\ b + k - 1 < op.addresses[i] + BatchSize))
                => mock_data[b][k] = op.before[b][k]

\* a batch whose second address lies outside every region: the first and
\* the third are written all the same
C19_Witness ==
    /\ BatchWritten
    /\ op.addresses = <<Base1 + 4, Base2 + 6, Base2>>
    /\ op.value_type = "int32"
    /\ op.value = PyFloat(100)
    /\ ~op.results[2].success /\ op.results[2].error # None
    /\ op.results[1].success /\ op.results[3].success
    /\ HoldsNewValue(Base1 + 4) /\ HoldsNewValue(Base2)
    /\ op.before[Base2] # mock_data[Base2]

(***************************************************************************)
(* Mock reads and writes on their own: two regions, adjacent or apart.     *)
(***************************************************************************)
MaxMockRegion == 5
MaxRead == 6
MaxMockOps == 2

\* the space between the two regions
MockGaps == {0, 3}

\* region 1 holds 1, 2, ... and region 2 holds 101, 102, ...
InitMock ==
    /\ \E s1 \in 4..MaxMockRegion, s2 \in 4..MaxMockRegion, gap \in MockGaps :
         /\ mock_regions = <<Region(Base1, s1), Region(Base1 + s1 + gap, s2)>>
         /\ mock_data = (Base1 :> [i \in 1..s1 |-> i])
                            @@ ((Base1 + s1 + gap) :> [i \in 1..s2 |-> 100 + i])
    /\ mock = TRUE
    /\ mock_dynamic = NoDynamic
    /\ op = Idle
    /\ DynUnused
    /\ PatchUnused

\* the addresses tried: from one below the first region to one past the
\* second
MockAddresses ==
    (Base1 - 1)..(mock_regions[2].base_address + mock_regions[2].size + 1)

\* read_process_memory(context, address, size)
ReadProcessMemory ==
    /\ calls < MaxMockOps
    /\ \E address \in MockAddresses, size \in 0..MaxRead :
         op' = [name |-> "read_process_memory", address |-> address, size |-> size,
                result |-> read_process_memory(mock_regions, mock_data, address, size),
                before |-> mock_data]
    /\ calls' = calls + 1
    /\ UNCHANGED <<memVars, dynVars, confirmation_granted, patch_log, watch>>

\* _write_mock_memory(context, address, packed) with the bytes utils.pack_value
\* makes
WriteMockMemory ==
    /\ calls < MaxMockOps
    /\ \E address \in MockAddresses, value \in {PyFloat(100), PyFloat(-2)},
          value_type \in DOMAIN VALUE_TYPES :
         LET packed == utils_pack_value(value, value_type).bytes
             w == write_mock_memory(mock_regions, mock_data, address, packed)
         IN /\ mock_data' = w.data
            /\ op' = [name |-> "write_mock_memory", address |-> address,
                      packed |-> packed, ok |-> w.ok, before |-> mock_data]
    /\ calls' = calls + 1
    /\ UNCHANGED <<mock_regions, mock, mock_dynamic, dynVars, confirmation_granted,
                   patch_log, watch>>

NextMock == ReadProcessMemory \/ WriteMockMemory

SpecMock == InitMock /\ [][NextMock]_vars

\* C20: a mock read or write at an address in no region fails and changes
\* no buffer; a write that would run past the end of its region fails and
\* changes no byte; a read that starts inside a region returns the bytes of
\* that region from the address on, at most as many as asked for and none of
\* another region.
C20_MockBounds ==
    /\ op.name = "read_process_memory" =>
        /\ mock_data = op.before
        /\ op.result.ok = ~WindowReadFails(mock_regions, op.address)
        /\ op.result.ok =>
            /\ op.result.data = BytesFrom(mock_regions, mock_data, op.address, op.size)
            /\ Len(op.result.data) <= op.size
    /\ op.name = "write_mock_memory" =>
        /\ op.ok = InOneRegion(op.address, Len(op.packed))
        /\ ~op.ok => mock_data = op.before

\* four bytes written two bytes before the end of the first region, with
\* the second region right behind it: refused, and nothing changes
C20_Witness ==
    /\ op.name = "write_mock_memory"
    /\ mock_regions[2].base_address = Base1 + mock_regions[1].size
    /\ op.address = Base1 + mock_regions[1].size - 2
    /\ Len(op.packed) = 4
    /\ ~op.ok
    /\ mock_data = op.before

(***************************************************************************)
(* Claims C21 to C30.                                                      *)
(***************************************************************************)
(***************************************************************************)
(* The codecs over the whole width of the types. An integer is a sign and  *)
(* the set of the bit positions of its magnitude, a packed value the bytes *)
(* of its two's complement word.                                           *)
(***************************************************************************)
BigInt(neg, mag) == [neg |-> neg /\ mag # {}, mag |-> mag]

MaxOf(S) == CHOOSE x \in S : \A y \in S : y <= x
MinOf(S) == CHOOSE x \in S : \A y \in S : x <= y

\* the bits of m + 2^p, for a set m with no position below p
AddBit(m, p) ==
    LET free == MinOf({k \in p..(MaxOf(m \cup {p}) + 1) : k \notin m})
    IN {k \in m : k > free} \cup {free}

\* the bits of m - 1, for m not empty
MinusOne(m) == (m \ {MinOf(m)}) \cup 0..(MinOf(m) - 1)

\* v lies in the range of the type
InRange(v, value_type) ==
    LET w == 8 * VALUE_FORMATS[value_type] IN
    IF IsSigned(value_type)
    THEN IF v.neg THEN v.mag = {w - 1} \/ MaxOf(v.mag) < w - 1
         ELSE v.mag = {} \/ MaxOf(v.mag) < w - 1
    ELSE ~v.neg /\ (v.mag = {} \/ MaxOf(v.mag) < w)

\* the bytes of a word of size bytes, little-endian
RECURSIVE ByteOf(_, _, _)
ByteOf(word, i, k) ==
    IF k = 8 THEN 0
    ELSE (IF 8 * i + k \in word THEN 2 ^ k ELSE 0) + ByteOf(word, i, k + 1)

WordBytes(word, size) == [i \in 1..size |-> ByteOf(word, i - 1, 0)]

\* the positions of the bits set in the bytes
BytesWord(raw) ==
    {k \in 0..(8 * Len(raw) - 1) : (raw[k \div 8 + 1] \div (2 ^ (k % 8))) % 2 = 1}

\* struct.pack of an integer: struct.error outside the range of the format
struct_pack_wide(value_type, v) ==
    LET size == VALUE_FORMATS[value_type]
        word == IF v.neg THEN 0..(8 * size - 1) \ MinusOne(v.mag) ELSE v.mag
    IN IF ~InRange(v, value_type) THEN [ok |-> FALSE, bytes |-> <<>>]
       ELSE [ok |-> TRUE, bytes |-> WordBytes(word, size)]

\* struct.unpack of an integer format
struct_unpack_wide(value_type, raw) ==
    LET w == 8 * Len(raw)
        word == BytesWord(raw)
    IN IF IsSigned(value_type) /\ (w - 1) \in word
       THEN BigInt(TRUE, AddBit(0..(w - 1) \ word, 0))
       ELSE BigInt(FALSE, word)

\* pack_value of process_inspector.py
pack_value_wide(v, fmt_key) ==
    IF fmt_key \notin DOMAIN VALUE_FORMATS THEN [ok |-> FALSE, bytes |-> <<>>]
    ELSE struct_pack_wide(fmt_key, v)

\* significant bits of a Python float
FloatMantissa == 53

\* float(n) of an integer: the nearest double, halves to the even one
PyFloatOf(v) ==
    IF v.mag = {} \/ MaxOf(v.mag) < FloatMantissa THEN v
    ELSE LET low == MaxOf(v.mag) - FloatMantissa + 1
             kept == {k \in v.mag : k >= low}
             half == (low - 1) \in v.mag
             rest == \E k \in v.mag : k < low - 1
             up == half /\ (rest \/ low \in v.mag)
         IN BigInt(v.neg, IF up THEN AddBit(kept, low) ELSE kept)

\* utils.pack_value of an integer: int(round(v)) is v
utils_pack_value_wide(v, value_type) ==
    IF value_type \notin DOMAIN VALUE_TYPES THEN [ok |-> FALSE, bytes |-> <<>>]
    ELSE struct_pack_wide(value_type, v)

\* utils.unpack_value: float(struct.unpack(fmt, raw)[0])
utils_unpack_value_wide(raw, value_type) ==
    PyFloatOf(struct_unpack_wide(value_type, raw))

\* the bit positions the magnitudes are made of
CodecBits == {0, 1, 30, 31, 32, 52, 53, 54, 62, 63}

CodecValues == {BigInt(neg, mag) : neg \in BOOLEAN, mag \in SUBSET CodecBits}

InitCodec ==
    /\ mock_regions = <<>>
    /\ mock_data = EmptyDict
    /\ mock = TRUE
    /\ mock_dynamic = NoDynamic
    /\ op = Idle
    /\ DynUnused
    /\ PatchUnused

\* pack_value, then the struct.unpack of take_snapshot
ScanCodec ==
    /\ op.name = "none"
    /\ \E value_type \in DOMAIN VALUE_FORMATS, v \in CodecValues :
         LET packed == pack_value_wide(v, value_type) IN
         /\ packed.ok
         /\ op' = [name |-> "scan_codec", value_type |-> value_type, v |-> v,
                   packed |-> packed.bytes,
                   result |-> struct_unpack_wide(value_type, packed.bytes)]
    /\ UNCHANGED <<memVars, dynVars, patchVars>>

\* utils.pack_value, then utils.unpack_value
WriteCodec ==
    /\ op.name = "none"
    /\ \E value_type \in DOMAIN VALUE_TYPES, v \in CodecValues :
         LET packed == utils_pack_value_wide(v, value_type) IN
         /\ packed.ok
         /\ op' = [name |-> "write_codec", value_type |-> value_type, v |-> v,
                   packed |-> packed.bytes,
                   result |-> utils_unpack_value_wide(packed.bytes, value_type)]
    /\ UNCHANGED <<memVars, dynVars, patchVars>>

NextCodec == ScanCodec \/ WriteCodec

SpecCodec == InitCodec /\ [][NextCodec]_vars

\* C21: for every integer type a codec accepts and every integer v of its
\* range, unpack(pack(v)) = v, for the scan codec and for the write codec,
\* 64-bit values above 2^53 included.
C21_RoundTrip ==
    op.name \in {"scan_codec", "write_codec"} =>
        /\ Len(op.packed) = VALUE_FORMATS[op.value_type]
        /\ op.result = op.v

(***************************************************************************)
(* The dynamic loop with what each pass worked on kept in op.              *)
(***************************************************************************)
\* the windows typed in: none, one that ends where the second region
\* starts, one that also cuts the first region, and one between the two
\* regions
LoopNarrowInputs ==
    {Nothing, <<Nothing, Some(Base2)>>, <<Some(Base1 + 4), Some(Base2)>>,
     <<Some(Base1 + 12), Some(Base2)>>}

\* one pass of the while loop of run_dynamic_scan_loop; ran tells whether
\* the pass got to its snapshot, taken is that snapshot, preceding the one
\* of the pass before (the baseline for the first pass)
LoopPass ==
    /\ dyn.pc = "loop"
    /\ BudgetExhausted(dyn) \/ dyn.step_counter < MaxSteps
    /\ LET adv == StepAdvance(dyn, mock, mock_regions, mock_data, mock_dynamic)
           snap == StepSnapshot(dyn, mock_regions, adv.data)
       IN \E ready \in {"", "q"}, narrow \in LoopNarrowInputs,
             relation \in {"increase", "decrease", "same", "quit"} :
         LET out == Iteration(dyn, hist, mock_data, mock_dynamic, adv, snap,
                              ready, narrow, relation)
             d0 == [dyn EXCEPT !.step_counter = dyn.step_counter + 1]
             scan == StepScan(d0, snap, narrow, relation)
         IN /\ dyn' = out.dyn
            /\ mock_data' = out.data
            /\ mock_dynamic' = out.md
            /\ hist' = out.hist
            /\ op' = [name |-> "loop_pass",
                      ran |-> ~BudgetExhausted(dyn) /\ ready # "q",
                      step |-> out.dyn.step_counter,
                      narrow |-> narrow,
                      relation |-> relation,
                      regions_before |-> dyn.baseline_regions,
                      carried |-> dyn.candidates # Nothing,
                      preceding |-> IF op.name = "loop_pass" THEN op.taken
                                    ELSE dyn.previous_snapshot,
                      taken |-> snap,
                      seen |-> scan.seen]
    /\ UNCHANGED <<mock_regions, mock, session, patchVars>>

\* what the live target of this specification holds in its five variables
LoopMemories ==
    {(Base1 :> (LEBytes(v[1], 4) \o LEBytes(v[2], 4) \o LEBytes(v[3], 4)))
        @@ (Base2 :> (LEBytes(v[4], 4) \o LEBytes(v[5], 4))) :
     v \in {<<0, 0, 0, 0, 0>>, <<1, 1, 1, 1, 1>>}}

InitLoop ==
    /\ mock_regions = DynRegions
    /\ mock \in BOOLEAN
    /\ IF mock THEN mock_data = MockMemory /\ mock_dynamic = MockDynamic
       ELSE mock_data \in LoopMemories /\ mock_dynamic = NoDynamic
    /\ op = Idle
    /\ DynUnused
    /\ PatchUnused

\* the live target changes its variables between two passes
LoopTargetWrites ==
    /\ ~mock
    /\ dyn.pc = "loop"
    /\ \E m \in LoopMemories : m # mock_data /\ mock_data' = m
    /\ UNCHANGED <<mock_regions, mock, mock_dynamic, op, dynVars, patchVars>>

\* the memory of the live target stops being readable, or is readable
\* again: ReadProcessMemory fails for every chunk while it is not
TargetReadable ==
    /\ ~mock
    /\ dyn.pc = "loop"
    /\ mock_regions' = IF mock_regions = <<>> THEN DynRegions ELSE <<>>
    /\ UNCHANGED <<mock_data, mock, mock_dynamic, op, dynVars, patchVars>>

NextLoop == DynStart \/ LoopPass \/ LoopTargetWrites \/ TargetReadable

SpecLoop == InitLoop /\ [][NextLoop]_vars

\* the operator answered y and typed a window in this pass
Narrowed == op.name = "loop_pass" /\ op.ran /\ op.narrow # Nothing

\* the bounds of the window: a blank start is the lowest base of the
\* regions, a blank end their highest end
WindowStart ==
    IF op.narrow[1] # Nothing THEN op.narrow[1][1]
    ELSE MinOf({r.base_address : r \in Range(op.regions_before)})

WindowEnd ==
    IF op.narrow[2] # Nothing THEN op.narrow[2][1]
    ELSE MaxOf({r.base_address + r.size : r \in Range(op.regions_before)})

OverlapsWindow(r) == r.base_address < WindowEnd /\ r.base_address + r.size > WindowStart

\* C22: after the operator narrowed the scan to a window [start, end), the
\* region list is exactly the previous regions that overlap the window, the
\* previous and the new snapshot hold only addresses a with start <= a < end,
\* and every snapshot is taken over the region list as narrowed so far.
C22_NarrowToWindow ==
    /\ (Narrowed /\ WindowStart < WindowEnd) =>
        /\ dyn.baseline_regions = SelectSeq(op.regions_before, OverlapsWindow)
        /\ \A a \in (DOMAIN op.seen.previous) \cup (DOMAIN op.seen.next_snapshot) :
             WindowStart <= a /\ a < WindowEnd
    /\ (op.name = "loop_pass" /\ op.ran) =>
        \A a \in DOMAIN op.taken : InRegions(op.regions_before, a)

\* filter_candidates was called in this pass
Filtered ==
    /\ op.name = "loop_pass"
    /\ op.ran
    /\ DOMAIN op.seen.comparisons # {}
    /\ op.relation # "quit"

\* C23: every pair (old, new) handed to filter_candidates for an address a
\* has new equal to a's value in the snapshot of this step and old equal to
\* a's value in the snapshot of the step before (the baseline for the first
\* step), with or without a carried candidate set and also after steps that
\* were skipped for want of comparable addresses.
C23_PairsOfAdjacentSnapshots ==
    Filtered =>
        \A a \in DOMAIN op.seen.comparisons :
            /\ a \in DOMAIN op.taken
            /\ op.seen.comparisons[a][2] = op.taken[a]
            /\ a \in DOMAIN op.preceding
            /\ op.seen.comparisons[a][1] = op.preceding[a]

(***************************************************************************)
(* The candidate filter on its own, next to the loop that calls it.        *)
(***************************************************************************)
MaxFilterValue == 1

FilterValues == (-1)..MaxFilterValue
FilterAddresses == {Base1, Base1 + 4, Base2}
Relations == {"increase", "decrease", "same"}

\* the dicts address -> (old, new) over some of the addresses
FilterInputs ==
    UNION {[A -> FilterValues \X FilterValues] : A \in SUBSET FilterAddresses}

\* filter_candidates(comparisons, relation, value_type)
FilterCandidates ==
    /\ op.name = "none"
    /\ dyn.pc = "idle"
    /\ \E comparisons \in FilterInputs, relation \in Relations \cup {"grow"},
          value_type \in {"int32", "int64"} :
         op' = [name |-> "filter_candidates", comparisons |-> comparisons,
                relation |-> relation, value_type |-> value_type,
                result |-> filter_candidates(comparisons, relation, value_type)]
    /\ UNCHANGED <<memVars, dynVars, patchVars>>

NextFilter ==
    FilterCandidates \/ DynStart \/ LoopPass \/ LoopTargetWrites \/ TargetReadable

SpecFilter == InitLoop /\ [][NextFilter]_vars

\* the addresses of the pairs that stand in the relation
Standing(comparisons, relation) ==
    {a \in DOMAIN comparisons :
        \/ relation = "increase" /\ comparisons[a][2] > comparisons[a][1]
        \/ relation = "decrease" /\ comparisons[a][2] < comparisons[a][1]
        \/ relation = "same" /\ comparisons[a][2] = comparisons[a][1]}

\* the addresses filter_candidates keeps of the recorded input for a relation
Kept(relation) ==
    DOMAIN filter_candidates(op.comparisons, relation, op.value_type)

\* C24: filter_candidates returns exactly the addresses whose pair stands in
\* the relation asked for, each with its new value, and nothing for a
\* relation it does not know; for the integer types the three results
\* partition the input, and when old = new in every pair only 'same' gives
\* anything. The loop filters only in a pass in which the operator gave the
\* relation, and holds what the filter returned for that relation.
C24_FilterExact ==
    /\ op.name = "filter_candidates" =>
        /\ DOMAIN op.result = Standing(op.comparisons, op.relation)
        /\ \A a \in DOMAIN op.result : op.result[a] = op.comparisons[a][2]
        /\ op.relation \notin Relations => DOMAIN op.result = {}
        /\ Kept("increase") \cup Kept("decrease") \cup Kept("same") = DOMAIN op.comparisons
        /\ Kept("increase") \cap Kept("decrease") = {}
        /\ Kept("increase") \cap Kept("same") = {}
        /\ Kept("decrease") \cap Kept("same") = {}
        /\ (\A a \in DOMAIN op.comparisons : op.comparisons[a][1] = op.comparisons[a][2])
              => /\ Kept("increase") = {} /\ Kept("decrease") = {}
                 /\ Kept("same") = DOMAIN op.comparisons
    /\ (op.name = "loop_pass" /\ op.ran /\ hist.filtered >= 0) =>
        /\ Filtered
        /\ op.relation \in Relations
        /\ hist.filtered = Cardinality(Standing(op.seen.comparisons, op.relation))
        /\ hist.filtered > 0 =>
             /\ DOMAIN dyn.candidates[1] = Standing(op.seen.comparisons, op.relation)
             /\ \A a \in DOMAIN dyn.candidates[1] :
                  dyn.candidates[1][a] = op.seen.comparisons[a][2]

\* three pairs, one that rose, one that fell and one that stayed: 'same'
\* keeps the third with its new value
C24_Witness ==
    /\ op.name = "filter_candidates"
    /\ op.relation = "same"
    /\ op.comparisons = (Base1 :> <<0, 1>>) @@ ((Base1 + 4) :> <<1, 0>>) @@ (Base2 :> <<-1, -1>>)
    /\ op.result = (Base2 :> -1)

(***************************************************************************)
(* Scans of a memory of which some chunks cannot be read. What can be read *)
(* is a context that holds each readable chunk as a region of its own.     *)
(***************************************************************************)
\* the chunks a scan of one region reads: offset, then offset + to_read
RECURSIVE ChunkPieces(_, _, _)
ChunkPieces(region, chunk_size, offset) ==
    IF offset >= region.size THEN <<>>
    ELSE LET to_read == Min(chunk_size, region.size - offset) IN
         <<Region(region.base_address + offset, to_read)>>
             \o ChunkPieces(region, chunk_size, offset + to_read)

RECURSIVE AllPieces(_, _, _)
AllPieces(regions, chunk_size, i) ==
    IF i > Len(regions) THEN <<>>
    ELSE ChunkPieces(regions[i], chunk_size, 0) \o AllPieces(regions, chunk_size, i + 1)

\* the reads that succeed when the chunks starting at the failing addresses
\* cannot be read
ReadableContext(regions, data, chunk_size, failing) ==
    LET pieces == AllPieces(regions, chunk_size, 1)
        Readable(p) == p.base_address \notin failing
    IN [regions |-> SelectSeq(pieces, Readable),
        data |-> [b \in {p.base_address : p \in Range(pieces)} |->
                    LET p == CHOOSE q \in Range(pieces) : q.base_address = b
                    IN BytesFrom(regions, data, b, p.size)]]

ChunkStarts(chunk_size) ==
    {p.base_address : p \in Range(AllPieces(mock_regions, chunk_size, 1))}

\* the words of the memory: the int32 1, or a pointer to the second word of
\* the first region
FailWords == {1, Base1 + 8}

InitFail ==
    /\ \E tail \in {0, MaxTail}, w1 \in FailWords, w2 \in FailWords,
          w3 \in FailWords, w4 \in FailWords :
         /\ mock_regions = <<Region(Base1, 3 * pointer_size + tail),
                             Region(Base2, pointer_size)>>
         /\ mock_data =
              (Base1 :> (LEBytes(w1, pointer_size) \o LEBytes(w2, pointer_size)
                         \o LEBytes(w3, pointer_size) \o Zeros(tail)))
              @@ (Base2 :> LEBytes(w4, pointer_size))
    /\ mock = FALSE
    /\ mock_dynamic = NoDynamic
    /\ op = Idle
    /\ DynUnused
    /\ PatchUnused

\* search_values while the reads of some chunks fail
SearchFailing ==
    /\ op.name = "none"
    /\ \E target \in {PyInt(0), PyInt(1)}, failing \in SUBSET ChunkStarts(ScanChunk) :
         LET ctx == ReadableContext(mock_regions, mock_data, ScanChunk, failing) IN
         op' = [name |-> "failing_search", chunk_size |-> ScanChunk, failing |-> failing,
                target |-> target,
                result |-> search_values(ctx.regions, ctx.data, mock_regions,
                                         target, "int32")]
    /\ UNCHANGED <<memVars, dynVars, patchVars>>

\* take_snapshot while the reads of some chunks fail
SnapshotFailing ==
    /\ op.name = "none"
    /\ \E value_type \in {"int32", "int64"}, args_chunk_size \in {6, RefChunk} :
         LET chunk_size == DynamicChunkSize(args_chunk_size, value_type) IN
         \E failing \in SUBSET ChunkStarts(chunk_size) :
            LET ctx == ReadableContext(mock_regions, mock_data, chunk_size, failing) IN
            op' = [name |-> "failing_snapshot", chunk_size |-> chunk_size,
                   failing |-> failing, value_type |-> value_type,
                   result |-> take_snapshot(ctx.regions, ctx.data, mock_regions,
                                            value_type, chunk_size)]
    /\ UNCHANGED <<memVars, dynVars, patchVars>>

\* find_pointer_references while the reads of some chunks fail
RefsFailing ==
    /\ op.name = "none"
    /\ \E target \in {Base1 + 8, Base2}, failing \in SUBSET ChunkStarts(RefChunk) :
         LET ctx == ReadableContext(mock_regions, mock_data, RefChunk, failing) IN
         op' = [name |-> "failing_refs", chunk_size |-> RefChunk, failing |-> failing,
                target |-> target,
                result |-> find_pointer_references(ctx.regions, ctx.data, mock_regions,
                                                   target)]
    /\ UNCHANGED <<memVars, dynVars, patchVars>>

NextFail == SearchFailing \/ SnapshotFailing \/ RefsFailing

SpecFail == InitFail /\ [][NextFail]_vars

\* the address lies in no chunk whose read failed
Survives(a) ==
    ~\E p \in Range(AllPieces(mock_regions, op.chunk_size, 1)) :
        /\ p.base_address \in op.failing
        /\ p.base_address <= a
        /\ a < p.base_address + p.size

\* C25: with the reads of any set of chunks failing, search_values,
\* take_snapshot and find_pointer_references still return, and return what
\* they return when every read succeeds less the results that lie in the
\* failed chunks.
C25_FailedChunksSkipped ==
    /\ op.name = "failing_search" =>
        /\ op.result.ok
        /\ op.result.found =
             SelectSeq(search_values(mock_regions, mock_data, mock_regions,
                                     op.target, "int32").found, Survives)
    /\ op.name = "failing_snapshot" =>
        LET all == take_snapshot(mock_regions, mock_data, mock_regions,
                                 op.value_type, op.chunk_size)
        IN op.result = [a \in {x \in DOMAIN all : Survives(x)} |-> all[a]]
    /\ op.name = "failing_refs" =>
        op.result = SelectSeq(find_pointer_references(mock_regions, mock_data,
                                                      mock_regions, op.target), Survives)

\* the first chunk of the first region could not be read and the search
\* still found the value in a later chunk and in the second region
C25_Witness ==
    /\ op.name = "failing_search"
    /\ op.failing = {Base1}
    /\ op.target = PyInt(1)
    /\ op.result.ok
    /\ Base1 \notin Range(op.result.found)
    /\ (Base1 + 8) \in Range(op.result.found)
    /\ Base2 \in Range(op.result.found)
    /\ Base1 \in Range(search_values(mock_regions, mock_data, mock_regions,
                                     op.target, "int32").found)

(***************************************************************************)
(* The session: main of process_inspector.py with the --dynamic workflow.  *)
(***************************************************************************)
\* a live target whose memory is mapped, and one with no readable region
SessionRegions == {DynRegions, <<>>}

InitSession ==
    /\ mock \in BOOLEAN
    /\ IF mock
       THEN mock_regions = DynRegions /\ mock_data = MockMemory /\ mock_dynamic = MockDynamic
       ELSE /\ mock_regions \in SessionRegions
            /\ mock_data \in LoopMemories
            /\ mock_dynamic = NoDynamic
    /\ op = Idle
    /\ DynUnused
    /\ PatchUnused

\* main left the way given: "normal" is a return, "error" and "interrupt"
\* are an exception that leaves main
SessionExit(s, how) == [s EXCEPT !.pc = "exit", !.exit = how]

\* main up to the try statement.  The mock context has no handle.
\* construct_context looks the process up, opens the handle and then
\* collects the modules; fetch_modules catches AccessDenied and
\* NoSuchProcess only, so another error of psutil and an interrupt of the
\* operator leave construct_context, and main, from there
SessionStart ==
    /\ session.pc = "idle"
    /\ LET s0 == [pc |-> "regions", handle |-> "none", opened |-> FALSE, closes |-> 0,
                  addresses |-> <<>>, found |-> <<>>, interrupted |-> FALSE,
                  pending |-> "none", payload |-> Nothing, saved |-> Nothing,
                  exit |-> "none"]
       IN IF mock THEN session' = s0
          ELSE \E outcome \in {"no_process", "open_denied", "modules_error",
                               "modules_interrupt", "ok"} :
                 session' =
                   CASE outcome = "no_process" -> SessionExit(s0, "error")
                     [] outcome = "open_denied" -> SessionExit(s0, "error")
                     [] outcome = "modules_error" ->
                          SessionExit([s0 EXCEPT !.handle = "open", !.opened = TRUE], "error")
                     [] outcome = "modules_interrupt" ->
                          SessionExit([s0 EXCEPT !.handle = "open", !.opened = TRUE],
                                      "interrupt")
                     [] OTHER -> [s0 EXCEPT !.handle = "open", !.opened = TRUE]
    /\ UNCHANGED <<memVars, op, dyn, hist, patchVars>>

\* interactive_scan: regions = read_regions(context); RuntimeError when
\* there is none
SessionReadRegions ==
    /\ session.pc = "regions"
    /\ session' = IF mock_regions = <<>>
                  THEN [session EXCEPT !.pc = "finally", !.pending = "error"]
                  ELSE [session EXCEPT !.pc = "scan"]
    /\ UNCHANGED <<memVars, op, dyn, hist, patchVars>>

\* run_dynamic_scan_loop called by interactive_scan
SessionLoopStart == session.pc = "scan" /\ DynStart
SessionLoopPass == session.pc = "scan" /\ DynStep
SessionTargetWrites == session.pc = "scan" /\ LoopTargetWrites

\* interactive_scan from the return of the dynamic loop to the prompt for
\* the extras: return {} when the loop found nothing
SessionScanned ==
    /\ session.pc = "scan"
    /\ dyn.pc = "done"
    /\ LET addresses == DynamicResult(dyn).addresses IN
       session' = IF addresses = <<>>
                  THEN [session EXCEPT !.pc = "finally", !.pending = "return"]
                  ELSE [session EXCEPT !.pc = "extras", !.addresses = addresses]
    /\ UNCHANGED <<memVars, op, dyn, hist, patchVars>>

\* interactive_scan from the prompt on, without the addon: reference
\* tracing and signatures when the operator answers y, then the payload
SessionExtras ==
    /\ session.pc = "extras"
    /\ \E run_extras \in BOOLEAN, reference_depth \in {1, MaxDepth} :
         LET chains == IF run_extras
                       THEN trace_references(mock_regions, mock_data, mock_regions,
                                             session.addresses, reference_depth).chains
                       ELSE <<>>
         IN session' = [session EXCEPT
                          !.pc = "finally", !.pending = "return",
                          !.payload = Some([addresses |-> session.addresses,
                                            references |-> chains])]
    /\ UNCHANGED <<memVars, op, dyn, hist, patchVars>>

\* the operator interrupts interactive_scan: except KeyboardInterrupt of
\* main sets payload = {}.  found is what the scan had found by then
SessionInterrupt ==
    /\ session.pc \in {"regions", "scan", "extras"}
    /\ session' = [session EXCEPT !.pc = "finally", !.pending = "return",
                                  !.interrupted = TRUE, !.found = session.addresses,
                                  !.payload = Nothing]
    /\ UNCHANGED <<memVars, op, dyn, hist, patchVars>>

\* finally: close_handle(context.handle), which closes a handle that is
\* set; then an error goes on out of main, and a payload that is not
\* empty is saved
SessionFinally ==
    /\ session.pc = "finally"
    /\ LET closed == IF session.handle = "open"
                     THEN [session EXCEPT !.handle = "closed",
                                          !.closes = session.closes + 1]
                     ELSE session
       IN session' = IF session.pending = "error" THEN SessionExit(closed, "error")
                     ELSE IF closed.payload = Nothing THEN SessionExit(closed, "normal")
                     ELSE SessionExit([closed EXCEPT !.saved = closed.payload], "normal")
    /\ UNCHANGED <<memVars, op, dyn, hist, patchVars>>

NextSession ==
    \/ SessionStart \/ SessionReadRegions \/ SessionLoopStart \/ SessionLoopPass
    \/ SessionTargetWrites \/ SessionScanned \/ SessionExtras \/ SessionInterrupt
    \/ SessionFinally

SpecSession == InitSession /\ [][NextSession]_vars

\* C26: a session that opened a native process handle has released it
\* exactly once when main is left, whichever way main is left, and never
\* releases it twice
C26_HandleReleasedOnce ==
    /\ session.pc # "idle" => session.closes <= 1
    /\ session.pc = "exit" /\ session.opened =>
         session.closes = 1 /\ session.handle = "closed"

\* C27: a session interrupted after addresses were found has these
\* addresses in its result and has saved them
C27_PartialResultsKept ==
    session.pc = "exit" /\ session.interrupted /\ session.found # <<>> =>
        /\ session.payload # Nothing
        /\ session.saved # Nothing
        /\ session.saved[1].addresses = session.found

(***************************************************************************)
(* The enforcement loop as execute_autopatch enters it.                    *)
(***************************************************************************)
\* the interval the call of execute_autopatch recorded in op was given
GivenInterval ==
    IF op.args_interval # Nothing THEN op.args_interval[1]
    ELSE IF op.config_interval # Nothing THEN op.config_interval[1]
    ELSE 0

\* the lines a step appended to the patch log
NewLines == SubSeq(patch_log', Len(patch_log) + 1, Len(patch_log'))

\* the loop is entered by this step
LoopEntered == watch.pc = "idle" /\ watch'.pc = "watch"
\* this step is one round of the loop
LoopRound == watch.pc = "watch" /\ watch'.pc = "watch"
\* this step is the cancel signal
LoopCancelled == watch.pc = "watch" /\ watch'.pc = "idle"

\* C28: the enforcement loop is entered only with an interval above 0 and
\* after the batch was applied; every round of it applies the batch to every
\* address without asking for the confirmation, which stays as recorded;
\* the cancel signal ends the loop without a write and without an error,
\* and nothing is written after it
C28_EnforcementLoop ==
    [][/\ LoopEntered =>
            /\ op'.name = "execute_autopatch" /\ op'.outcome = "applied"
            /\ GivenInterval' > 0
       /\ LoopRound =>
            /\ Len(NewLines) = Len(watch.addresses)
            /\ \A i \in 1..Len(NewLines) :
                 /\ NewLines[i].address = watch.addresses[i]
                 /\ NewLines[i].action = IF watch.dry_run THEN "dry_run" ELSE "write"
            /\ watch.dry_run => mock_data' = mock_data
            /\ confirmation_granted' = confirmation_granted
            /\ ~watch.dry_run => confirmation_granted
       /\ LoopCancelled =>
            /\ watch' = WatchIdle
            /\ UNCHANGED <<mock_data, patch_log, confirmation_granted, op>>
            /\ op.outcome = "applied"
       /\ watch.pc = "idle" /\ calls > 0 => UNCHANGED <<mock_data, patch_log>>
       /\ confirmation_granted => confirmation_granted'
      ]_vars

\* the loop writes for the second time, live, entered with --enforce-interval 1
\* over a configuration file that says otherwise or nothing
C28_Witness ==
    /\ watch.pc = "watch" /\ watch.iterations >= 2 /\ ~watch.dry_run
    /\ op.name = "execute_autopatch" /\ op.args_interval = Some(1)
    /\ Len(watch.addresses) >= 2

(***************************************************************************)
(* The mock-dynamic value under dynamic scans of either type.              *)
(***************************************************************************)
\* the layout of build_mock_context scaled: the uint32 123456 and the
\* mock-dynamic int32 30, each followed by zero bytes as at 0x800 and 0x900
AdvRegions == <<Region(Base1, 16), Region(Base2, 8)>>
AdvDynamicAddr == Base1 + 8
AdvMemory ==
    (Base1 :> (LEBytes(123456, 4) \o Zeros(4) \o LEBytes(30, 4) \o Zeros(4)))
        @@ (Base2 :> Zeros(8))
AdvDynamic == [addr |-> Some(AdvDynamicAddr), type |-> "int32", value |-> 30, step |-> -1]

InitAdvance ==
    /\ mock_regions = AdvRegions
    /\ mock_data = AdvMemory
    /\ mock = TRUE
    /\ mock_dynamic = AdvDynamic
    /\ op = Idle
    /\ DynUnused
    /\ PatchUnused

\* run_dynamic_scan_loop up to the loop, with --type left out, int32 or int64
AdvStart ==
    /\ dyn.pc = "idle"
    /\ op.name = "none"
    /\ \E value_kind \in {None, "int32", "int64"}, args_chunk_size \in {6, DefaultChunkSize},
          args_max_steps \in {Nothing} \cup {Some(n) : n \in 0..MaxStepsArg} :
         LET value_type == IF value_kind # None THEN value_kind ELSE mock_dynamic.type
             chunk_size == DynamicChunkSize(args_chunk_size, value_type)
         IN dyn' = [pc |-> "loop",
                    value_type |-> value_type,
                    chunk_size |-> chunk_size,
                    max_steps |-> IF args_max_steps = Nothing THEN 0
                                  ELSE args_max_steps[1],
                    baseline_regions |-> mock_regions,
                    previous_snapshot |-> take_snapshot(mock_regions, mock_data,
                                                        mock_regions, value_type,
                                                        chunk_size),
                    candidates |-> Nothing,
                    step_counter |-> 0]
    /\ UNCHANGED <<memVars, op, hist, session, patchVars>>

\* one pass of the while loop; op keeps the memory and the mock-dynamic
\* record the pass started with, whether it got to its snapshot, and how
\* many passes of the run did so far
AdvPass ==
    /\ dyn.pc = "loop"
    /\ BudgetExhausted(dyn) \/ dyn.step_counter < MaxSteps
    /\ LET adv == StepAdvance(dyn, mock, mock_regions, mock_data, mock_dynamic)
           snap == StepSnapshot(dyn, mock_regions, adv.data)
       IN \E ready \in {"", "q"}, narrow \in LoopNarrowInputs,
             relation \in {"increase", "decrease", "same", "quit"} :
         LET out == Iteration(dyn, hist, mock_data, mock_dynamic, adv, snap,
                              ready, narrow, relation)
             d0 == [dyn EXCEPT !.step_counter = dyn.step_counter + 1]
             scan == StepScan(d0, snap, narrow, relation)
             ran == ~BudgetExhausted(dyn) /\ ready # "q"
         IN /\ dyn' = out.dyn
            /\ mock_data' = out.data
            /\ mock_dynamic' = out.md
            /\ hist' = out.hist
            /\ op' = [name |-> "adv_pass",
                      ran |-> ran,
                      value_type |-> dyn.value_type,
                      relation |-> relation,
                      memory_before |-> mock_data,
                      md_before |-> mock_dynamic,
                      advances |-> (IF op.name = "adv_pass" THEN op.advances ELSE 0)
                                      + (IF ran THEN 1 ELSE 0),
                      seen |-> scan.seen]
    /\ UNCHANGED <<mock_regions, mock, session, patchVars>>

NextAdvance == AdvStart \/ AdvPass

SpecAdvance == InitAdvance /\ [][NextAdvance]_vars

\* the bytes of the buffers outside [address, address + size) are the same
SameOutside(before, after, address, size) ==
    /\ DOMAIN after = DOMAIN before
    /\ \A b \in DOMAIN before :
         /\ Len(after[b]) = Len(before[b])
         /\ \A i \in 1..Len(before[b]) :
              (b + i - 1 < address \/ b + i - 1 >= address + size)
                  => after[b][i] = before[b][i]

\* C29: in mock mode a pass of the dynamic scan changes memory only by the
\* mock-dynamic advance, made once in a pass that takes its snapshot and
\* only when the scan type is the mock's type.  Then the value stored
\* after k such passes is initial + k * step and the bytes at its address
\* are its encoding; with another type the two snapshots of a pass are
\* identical, an increase or decrease answer leaves no candidate, and the
\* run returns no address when the budget runs out
C29_MockAdvance ==
    op.name = "adv_pass" =>
        LET matching == op.value_type = op.md_before.type
            addr == op.md_before.addr[1]
            size == VALUE_FORMATS[op.md_before.type]
        IN /\ ~op.ran => mock_data = op.memory_before /\ mock_dynamic = op.md_before
           /\ op.ran /\ matching =>
                /\ mock_dynamic.value = op.md_before.value + op.md_before.step
                /\ SameOutside(op.memory_before, mock_data, addr, size)
           /\ matching =>
                /\ mock_dynamic.value = AdvDynamic.value + op.advances * AdvDynamic.step
                /\ read_process_memory(mock_regions, mock_data, addr, size).data
                     = pack_value(PyInt(mock_dynamic.value), mock_dynamic.type).bytes
           /\ op.advances = dyn.step_counter - (IF hist.exit = "quit_ready" THEN 1 ELSE 0)
           /\ ~matching =>
                /\ mock_data = AdvMemory /\ mock_dynamic = AdvDynamic
                /\ op.ran => op.seen.previous = op.seen.next_snapshot
                /\ op.ran /\ op.relation \in {"increase", "decrease"} =>
                     hist.filtered = 0 /\ dyn.candidates = Nothing
                /\ hist.exit = "exhausted" => DynamicResult(dyn).addresses = <<>>

\* three passes of a scan of the mock's type took the value from 30 to 27
C29_Witness ==
    /\ op.name = "adv_pass" /\ op.ran /\ op.advances = 3
    /\ op.value_type = mock_dynamic.type
    /\ mock_dynamic.value = 27

\* the second pass of a scan of int64 compared two equal snapshots and the
\* answer decrease left no candidate
C29_WitnessOtherType ==
    /\ op.name = "adv_pass" /\ op.ran /\ op.value_type = "int64"
    /\ op.relation = "decrease" /\ hist.filtered = 0
    /\ dyn.step_counter = 2 /\ DOMAIN op.seen.comparisons # {}

(***************************************************************************)
(* Every writer of the mock buffers in one session.                        *)
(***************************************************************************)
\* calls of a writer in one session
MaxWrites == 2

\* the mock-dynamic slot, four bytes that end with region 2, an int32 that
\* would run over the end of region 2, and the last two bytes of region 1
WriteAddresses == {Base1 + 4, Base2 + 4, Base2 + 6, Base1 + 10}

\* two slots, two overlapping ranges, and one range that does not fit
\* followed by one that does
WriteLists == {<<Base1 + 4, Base2>>, <<Base1 + 4, Base1 + 6>>, <<Base2 + 6, Base1>>}

InitWrites ==
    /\ mock_regions = DynRegions
    /\ mock_data = MockMemory
    /\ mock = TRUE
    /\ mock_dynamic = MockDynamic
    /\ op = Idle
    /\ DynUnused
    /\ PatchUnused

\* the ranges a call asks to write: one per address, as wide as the type
RangesOf(addresses, value_type) ==
    {<<a, VALUE_TYPES[value_type]>> : a \in Range(addresses)}

\* write_process_value on the mock context, confirmed by the operator
MockWrite ==
    /\ calls < MaxWrites
    /\ watch.pc = "idle"
    /\ \E address \in WriteAddresses, value_type \in {"int32", "int64"}, dry_run \in BOOLEAN :
         LET r == write_process_value(PatchState0, mock_regions, address, PyFloat(100),
                                      value_type, FALSE, dry_run, TRUE, CONFIRMATION_PHRASE)
         IN /\ mock_data' = r.st.data
            /\ confirmation_granted' = r.st.confirmed
            /\ patch_log' = r.st.log
            /\ op' = [name |-> "mock_write", before |-> mock_data,
                      writes |-> IF dry_run THEN {}
                                 ELSE RangesOf(<<address>>, value_type)]
    /\ calls' = calls + 1
    /\ UNCHANGED <<mock_regions, mock, mock_dynamic, dynVars, watch>>

\* auto_apply_patch on the mock context
MockBatch ==
    /\ calls < MaxWrites
    /\ watch.pc = "idle"
    /\ \E addresses \in WriteLists, value_type \in {"int32", "int64"}, dry_run \in BOOLEAN :
         LET r == auto_apply_patch(PatchState0, mock_regions, addresses, PyFloat(-2),
                                   value_type, TRUE, dry_run, TRUE,
                                   [i \in 1..Len(addresses) |-> CONFIRMATION_PHRASE], 1)
         IN /\ mock_data' = r.st.data
            /\ confirmation_granted' = r.st.confirmed
            /\ patch_log' = r.st.log
            /\ op' = [name |-> "mock_batch", before |-> mock_data,
                      writes |-> IF dry_run THEN {} ELSE RangesOf(addresses, value_type)]
    /\ calls' = calls + 1
    /\ UNCHANGED <<mock_regions, mock, mock_dynamic, dynVars, watch>>

\* advance_mock_dynamic_value of a dynamic scan of the type given
MockAdvance ==
    /\ calls < MaxWrites
    /\ watch.pc = "idle"
    /\ \E value_type \in {"int32", "int64"} :
         LET adv == advance_mock_dynamic_value(mock, mock_regions, mock_data, mock_dynamic,
                                               value_type)
         IN /\ mock_data' = adv.data
            /\ mock_dynamic' = adv.md
            /\ op' = [name |-> "mock_advance", before |-> mock_data,
                      writes |-> IF value_type = mock_dynamic.type
                                 THEN {<<mock_dynamic.addr[1], VALUE_FORMATS[value_type]>>}
                                 ELSE {}]
    /\ calls' = calls + 1
    /\ UNCHANGED <<mock_regions, mock, dynVars, confirmation_granted, patch_log, watch>>

\* run_watch_patch_loop on the mock context up to its loop
MockEnforce ==
    /\ calls < MaxWrites
    /\ watch.pc = "idle"
    /\ \E addresses \in WriteLists, value_type \in {"int32", "int64"}, dry_run \in BOOLEAN :
         /\ watch' = Watching(addresses, PyFloat(7), value_type, TRUE, dry_run, FALSE)
         /\ op' = [name |-> "mock_enforce", before |-> mock_data, writes |-> {}]
    /\ calls' = calls + 1
    /\ UNCHANGED <<memVars, dynVars, confirmation_granted, patch_log>>

NextWrites ==
    MockWrite \/ MockBatch \/ MockAdvance \/ MockEnforce \/ WatchIteration \/ WatchCancel

SpecWrites == InitWrites /\ [][NextWrites]_vars

\* the ranges the step asks to write: those of the round of the loop it
\* is, or those of the call it is
StepWrites ==
    IF LoopRound
    THEN (IF watch.dry_run THEN {} ELSE RangesOf(watch.addresses, watch.value_type))
    ELSE IF op' # op THEN op'.writes
    ELSE {}

\* C30: in mock mode every buffer keeps the length of its region through
\* every write of every writer, and a byte changes only if it lies in a
\* range the step asked to write and that range lies whole in the region
\* of the byte
C30_WritesLocal ==
    [][/\ \A i \in 1..Len(mock_regions') :
            Len(mock_data'[mock_regions'[i].base_address]) = mock_regions'[i].size
       /\ DOMAIN mock_data' = DOMAIN mock_data
       /\ \A b \in DOMAIN mock_data :
            \A i \in 1..Len(mock_data[b]) :
               mock_data'[b][i] # mock_data[b][i] =>
                  \E w \in StepWrites :
                     /\ w[1] <= b + i - 1 /\ b + i - 1 < w[1] + w[2]
                     /\ b <= w[1] /\ w[1] + w[2] <= b + Len(mock_data[b])
      ]_vars

\* after an advance of the mock value, a batch of two ranges of which the
\* first runs over the end of region 2 wrote the second one only
C30_Witness ==
    /\ op.name = "mock_batch"
    /\ <<Base2 + 6, 4>> \in op.writes
    /\ mock_data[Base2] = op.before[Base2]
    /\ mock_data[Base1] # op.before[Base1]
    /\ mock_dynamic.value = MockDynamic.value + MockDynamic.step

====
